---- MODULE Spec2Model ----
(***************************************************************************)
(* The wallet engine of src/src/wallet/database.ts (class Database) as a   *)
(* state machine.  The state is the Dexie store (one set of rows per       *)
(* table), the settlement server's ledger, and the asynchronous calls that *)
(* are running: every `await` of the source is a point where another call  *)
(* may run, and a promise the source does not await (transfers.put in      *)
(* discardTransfer and in the INPUT_SPENT branch, db.transaction in        *)
(* processClaimResponse) is a piece of work that lands at some later step. *)
(***************************************************************************)
EXTENDS Integers, FiniteSets, Sequences, TLC

\* ------------------------------------------------------------- bounds
\* calls that may be running at the same time (detached self-claims included)
MaxTasks == 2
\* transfers built by sendDirect / sendToBitcoinAddress
MaxSends == 2
\* claim round trips the server answers with a fresh response
MaxRoundTrips == 2
\* transfers the server accepted from another holder of the same seed
MaxExternal == 1

\* transfers.put calls issued, not awaited and not yet landed, at one time
MaxPending == 1
\* the coin selector is tried on coins of magnitude 0..MaxSelectorMagnitude and
\* on the targets 1..MaxTarget (and 100)
MaxSelectorMagnitude == 5
MaxTarget == 12
\* sync: bitcoin addresses stored before a sync starts, the highest derivation
\* index that has receipts, the highest configured gap limit
MaxStored == 3
MaxUsedIndex == 4
MaxGapLimit == 3

\* ------------------------------------------------- program parameters
\* hi.Params.basicTransferFee, the flat fee of sendDirect (scaled down)
basicTransferFee == 1
\* hi.Params.transactionConsolidationFee, taken off a hookin's amount
transactionConsolidationFee == 1
\* hi.Params.templateTransactionWeight, times feeRate in sendToBitcoinAddress
templateTransactionWeight == 1
\* the largest coin magnitude of the model (a coin is worth 2^magnitude)
MaxMagnitude == 2
\* the clock readings after the first: new Date() returns 0..MaxTime
MaxTime == 1
\* the direct addresses newDirectAddress is called for
MaxDirectAddresses == 1

VARIABLES
  bitcoinAddresses, \* table bitcoinAddresses: rows [address, claimant, index]
  directAddresses,  \* table directAddresses: rows [claimant, index, isInternal]
  bounties,         \* table bounties: rows [hash, amount, claimant, nonce]
  hookins,          \* table hookins: rows [hash, bitcoinAddress, txid, vout, amount, claimant]
  hookouts,         \* table hookouts: rows [hash, amount, nonce]
  claims,           \* table claims: the acknowledged claim responses, keyed by claim
  coins,            \* table coins: rows [hash, claimHash, blindingNonce, magnitude]
  transfers,        \* table transfers: rows [hash, coinHashes, bountyHashes, hookoutHash, status]
  srvTransfers,     \* settlement server: hashes of the transfers it acknowledged
  srvClaims,        \* settlement server: the claim responses it issued
  built,            \* hashes of the transfers built by this wallet
  sends,            \* number of transfers built so far (source of fresh nonces)
  tasks,            \* the running asynchronous calls
  pendingPuts,      \* transfers.put calls issued and not awaited, not yet landed
  pendingTx,        \* processClaimResponse transactions started and not awaited
  out,              \* what the call that completed in the last step handed its caller
  seed,             \* this.seed of the Database object: Locked when not set
  config,           \* table config: at most the one row restore added
  now               \* the clock new Date() reads

store == <<bitcoinAddresses, directAddresses, bounties, hookins, hookouts, claims, coins, transfers>>
server == <<srvTransfers, srvClaims>>
vars == <<bitcoinAddresses, directAddresses, bounties, hookins, hookouts, claims, coins,
          transfers, srvTransfers, srvClaims, built, sends, tasks, pendingPuts, pendingTx, out,
          seed, config, now>>

\* the Database object's seed, the config table and the clock
wallet == <<seed, config, now>>

\* this.seed === undefined
Locked == <<>>

\* bip39.mnemonicToSeed(mnemonic, password)
mnemonicToSeed(mnemonic, password) == <<"seed", mnemonic, password>>

\* the three sub-generators of a seed: a hash of a label and the seed
seedToBitcoinAddressGenerator(s) == <<"bitcoinAddressGenerator", s>>

seedToDirectAddressGenerator(s) == <<"directAddressGenerator", s>>

seedToInternalAddressGenerator(s) == <<"internalAddressGenerator", s>>

toPublicKey(key) == <<"pub", key>>

\* gapLimit as restore writes it
DefaultGapLimit == 10

\* the config row restore adds
ConfigDoc(mnemonic, password) ==
  LET s == mnemonicToSeed(mnemonic, password) IN
  [one |-> 1,
   bitcoinAddressGenerator |-> toPublicKey(seedToBitcoinAddressGenerator(s)),
   directAddressGenerator |-> toPublicKey(seedToDirectAddressGenerator(s)),
   internalAddressGenerator |-> toPublicKey(seedToInternalAddressGenerator(s)),
   mnemonic |-> mnemonic,
   gapLimit |-> DefaultGapLimit]

\* deriveOwner with the number of stored coins mixed in: the variant
\* C25_OwnerRederivable has to tell from deriveOwner
deriveOwnerFromStore(claimHash, blindingNonce) ==
  <<"HIChain.deriveOwner", seed, claimHash, blindingNonce, Cardinality(coins)>>

\* deriveOwner and deriveBlindingSecret lines 753-770 past their locked check: a
\* hash of a label, this.seed, the claim hash and the blinding nonce
deriveOwner(claimHash, blindingNonce) ==
  <<"HIChain.deriveOwner", seed, claimHash, blindingNonce>>

deriveBlindingSecret(claimHash, blindingNonce) ==
  <<"HIChain.deriveBlindingSecret", seed, claimHash, blindingNonce>>

\* the wallet the calls other than restore and unlock are made on: restored from
\* mnemonic "m1" with password "p1", and unlocked
RestoredSeed == mnemonicToSeed("m1", "p1")

RestoredConfig == {ConfigDoc("m1", "p1")}

\* ------------------------------------------------------------ helpers
Tasks == 1..MaxTasks

Idle == [op |-> "idle"]

NoOut == [op |-> "", res |-> "", hash |-> <<>>, arg |-> ""]

\* a call's result: res is "ok", the value returned or the error thrown; arg is the
\* status of the transfer document the call was handed, when it was handed one
Result(op, res, hash) == [op |-> op, res |-> res, hash |-> hash, arg |-> ""]

\* finalizeTransfer or discardTransfer was entered with a document of status
\* arg: res is "entered" when the call went on, or what it threw
Entered(op, res, doc) == [op |-> op, res |-> res, hash |-> doc.hash, arg |-> doc.status.kind]

RECURSIVE Pow2(_)
Pow2(n) == IF n = 0 THEN 1 ELSE 2 * Pow2(n - 1)

RECURSIVE SumValues(_)
SumValues(S) ==
  IF S = {} THEN 0
  ELSE LET c == CHOOSE x \in S : TRUE IN Pow2(c.magnitude) + SumValues(S \ {c})

\* Dexie Table.put: insert, or replace the row with the same primary key
Put(table, row) == {r \in table : r.hash # row.hash} \cup {row}

\* hi.amountToMagnitudes: one magnitude per set bit of the amount
amountToMagnitudes(amount) ==
  {m \in 0..MaxMagnitude : (amount \div Pow2(m)) % 2 = 1}

\* ------------------------------------------------------------- hashes
BountyHash(amount, claimant, nonce) == <<"bounty", amount, claimant, nonce>>

HookinHash(txid, vout, amount, claimant) == <<"hookin", txid, vout, amount, claimant>>

HookoutHash(amount, nonce) == <<"hookout", amount, nonce>>

CoinHash(claimHash, blindingNonce, magnitude) == <<"coin", claimHash, blindingNonce, magnitude>>

TransferHash(inputs, bountyHashes, hookoutHash) == <<"transfer", inputs, bountyHashes, hookoutHash>>

Ack(hash) == <<"ack", hash>>

Pending == [kind |-> "PENDING", acknowledgement |-> <<>>]

Conflicted == [kind |-> "CONFLICTED", acknowledgement |-> <<>>]

Acknowledged(ack) == [kind |-> "ACKNOWLEDGED", acknowledgement |-> ack]

\* ----------------------------------------------------- key derivation
\* deriveClaimantIndex / deriveClaimant: the key of a direct address, named by the
\* generator it is derived from and the index
deriveClaimantIndex(index, isInternal) ==
  <<IF isInternal THEN "directAddressGenerator" ELSE "internalAddressGenerator", index>>

\* deriveBitcoinAddressIndex / deriveBitcoinAddress
deriveBitcoinAddressIndex(i) ==
  [claimant |-> <<"bitcoinAddressGenerator", i>>, bitcoinAddress |-> <<"address", i>>]

\* the key a bounty is sent to when the payee is somebody else
ForeignKey == <<"foreign", 0>>

\* ------------------------------------------------------ store queries
SpentBy(rows) == UNION {t.coinHashes : t \in {r \in rows : r.status.kind # "CONFLICTED"}}

\* listUnspent: the coins no stored transfer other than a CONFLICTED one refers to
listUnspent == {c \in coins : c.hash \notin SpentBy(transfers)}

\* getBalance
getBalance == SumValues(listUnspent)

CoinValue(c) == Pow2(c.magnitude)

\* the coins of the largest, and of the smallest, magnitude among S
Largest(S) == {c \in S : \A d \in S : d.magnitude <= c.magnitude}

Smallest(S) == {c \in S : \A d \in S : d.magnitude >= c.magnitude}

\* the selections of the coin selector's policy: take the largest coin that is
\* not above what is still needed, again and again; when no coin fits, the
\* smallest coin left completes the target; with no coin left there is none
RECURSIVE Greedy(_, _, _)
Greedy(avail, need, taken) ==
  LET fits == {c \in avail : CoinValue(c) <= need} IN
  IF need <= 0 THEN {taken}
  ELSE IF fits # {}
       THEN UNION {Greedy(avail \ {c}, need - CoinValue(c), taken \cup {c}) : c \in Largest(fits)}
       ELSE {taken \cup {c} : c \in Smallest(avail)}

\* findAtLeast with the excess taken over all the coins it was given: the variant
\* C17_SelectorSound has to tell from findAtLeast
findAtLeastExcessOfAll(unspent, target) ==
  {[found |-> S, excess |-> SumValues(unspent) - target] : S \in Greedy(unspent, target, {})}

\* coinselection.findAtLeast(unspent, target): the possible results
\* [found, excess]; the empty set stands for `undefined`
findAtLeast(unspent, target) ==
  {[found |-> S, excess |-> SumValues(S) - target] : S \in Greedy(unspent, target, {})}

\* the documents a caller may hand to finalizeTransfer / discardTransfer: a row as
\* it is in the store now, or the copy of a transfer this wallet built that was
\* read from the store while it was PENDING (sendDirect adds every transfer as
\* PENDING, and a document read from the table is a copy of its own)
CallerDocs ==
  transfers \cup {[r EXCEPT !.status = Pending] : r \in {x \in transfers : x.hash \in built}}

\* ------------------------------------------------- settlement server
Inputs(transferHash) == transferHash[2]

\* lookup-coin: the transfers the server knows to have consumed the coin
lookupCoin(coinHash) == {U \in srvTransfers : coinHash \in Inputs(U)}

\* the row finalizeTransfer stores for a transfer fetched with lookup-transfer
ConflictTransferDoc(U) ==
  [hash |-> U, coinHashes |-> U[2], bountyHashes |-> U[3], hookoutHash |-> U[4],
   status |-> Acknowledged(Ack(U))]

\* a transfer of another holder of the seed that spends the coins S
ExternalTransfer(S) == TransferHash(S, {BountyHash(0, ForeignKey, 0)}, {})

\* the receipts fetchBitcoinReceives may report for an address
Receives == {<<[txid |-> 1, vout |-> 0, amount |-> 7], [txid |-> 2, vout |-> 0, amount |-> 2]>>}

\* the amounts and fee rates the caller sends with
Amounts == {4}

FeeRates == {2}

\* ------------------------------------------------------ running calls
Free(t) == tasks[t].op = "idle"

\* a call that starts takes the first free slot
FirstFree(t) == Free(t) /\ \A s \in Tasks : s < t => ~Free(s)

\* a call of the claim family: op is claimBounty, claimHookin, addHookins or
\* selfClaim (the detached loop of finalizeTransfer); cl is the document being
\* claimed, todo what the loop of the call has still to go through
ClaimTask(op, pc, cl, todo, addr) ==
  [op |-> op, pc |-> pc, cl |-> cl, todo |-> todo, addr |-> addr]

\* a call of the transfer family: op is sendDirect, sendToBitcoinAddress or
\* finalizeTransfer; doc is the transferDoc object of the call
\* named and fetched are what the loop over the inputs has heard from the server
\* so far: the inputs lookup-coin named a transfer for, and the transfers
\* lookup-transfer returned
TransferTask(op, pc, doc, resp, todo) ==
  [op |-> op, pc |-> pc, doc |-> doc, resp |-> resp, todo |-> todo,
   named |-> {}, fetched |-> {}]

\* a transfers.put that was issued and not awaited: the row, the function that
\* issued it and, for finalizeTransfer, what its loop heard from the server
UnawaitedPut(row, by, named, fetched) ==
  [row |-> row, by |-> by, named |-> named, fetched |-> fetched]

NoResp == [kind |-> "NONE", acknowledgement |-> <<>>]

NoAddr == [address |-> <<>>, claimant |-> <<>>, index |-> 0]

\* addHookins lines 477-482: the row of one receive, created being new Date()
HookinDoc(addr, receive) ==
  [hash |-> HookinHash(receive.txid, receive.vout, receive.amount, addr.claimant),
   bitcoinAddress |-> addr.address, created |-> now, txid |-> receive.txid,
   vout |-> receive.vout, amount |-> receive.amount, claimant |-> addr.claimant]

IsHookin(cl) == cl.hash[1] = "hookin"

\* ClaimAmount without the consolidation fee of a hookin: the variant
\* C28_CoinsOfResponse has to tell from ClaimAmount
ClaimAmountGross(cl) == cl.amount

\* the amount a claim asks coins for: claimBountyWithAddress line 230, claimHookin line 250
ClaimAmount(cl) ==
  IF IsHookin(cl) THEN cl.amount - transactionConsolidationFee ELSE cl.amount

\* claims.get(hash) of the already-claimed check
IsClaimed(hash) == \E c \in claims : c.hash = hash

\* the claim responses the server may give to a claim request: a fresh round
\* trip (fresh blinding nonces), whose proofs verify or not, or the replay of a
\* response it gave before
ClaimResponses(cl) ==
  {[hash |-> cl.hash, nonce |-> Cardinality(srvClaims) + 1,
    magnitudes |-> amountToMagnitudes(ClaimAmount(cl)), valid |-> v] :
      v \in {b \in BOOLEAN : Cardinality(srvClaims) < MaxRoundTrips}}
  \cup {r \in srvClaims : r.hash = cl.hash}

\* the coins processClaimResponse makes of a claim response
CoinsOf(r) ==
  {[hash |-> CoinHash(r.hash, r.nonce, m), claimHash |-> r.hash,
    blindingNonce |-> r.nonce, magnitude |-> m,
    owner |-> toPublicKey(deriveOwner(r.hash, r.nonce))] : m \in r.magnitudes}

\* the call in slot t at its next position: a claim made within sync() keeps the
\* locals of syncBitcoinAddresses
Within(t, op, pc, cl, todo, addr) ==
  IF op = "sync"
  THEN [tasks[t] EXCEPT !.pc = pc, !.cl = cl, !.todo = todo, !.addr = addr]
  ELSE ClaimTask(op, pc, cl, todo, addr)

\* what a call of the claim family does once the claim of one document is over:
\* the loop goes on, or the call returns
ClaimFamilyNext(t, op, todo, addr) ==
  IF todo = <<>>
  THEN IF op = "sync"
       THEN /\ tasks' = [tasks EXCEPT ![t] = Within(t, op, "resume", tasks[t].cl, todo, addr)]
            /\ out' = NoOut
       ELSE /\ tasks' = [tasks EXCEPT ![t] = Idle]
            /\ out' = IF op = "selfClaim" THEN NoOut ELSE Result(op, "ok", <<>>)
  ELSE /\ tasks' = [tasks EXCEPT ![t] = Within(t, op, "next", Head(todo), Tail(todo), addr)]
       /\ out' = NoOut

\* claimBountyWithAddress lines 220-232 and claimHookin lines 238-252: the
\* already-claimed check, the derivation of the claimant, which throws on a
\* locked wallet, then the claim request leaves
ClaimGuard(t, op, cl, todo, addr) ==
  IF IsClaimed(cl.hash)
  THEN ClaimFamilyNext(t, op, todo, addr)
  ELSE IF seed = Locked
       THEN /\ tasks' = [tasks EXCEPT ![t] = Idle]
            /\ out' = IF op = "selfClaim" THEN NoOut ELSE Result(op, "wallet is locked", cl.hash)
       ELSE /\ tasks' = [tasks EXCEPT ![t] = Within(t, op, "makeClaim", cl, todo, addr)]
            /\ out' = NoOut

\* claimBounty(bountyDoc)
ClaimBounty(t, b) ==
  /\ FirstFree(t)
  /\ b \in bounties
  /\ IF \E a \in directAddresses : a.claimant = b.claimant
     THEN ClaimGuard(t, "claimBounty", b, <<>>, NoAddr)
     ELSE /\ out' = Result("claimBounty", "MUST_EXIST", b.hash)
          /\ UNCHANGED tasks
  /\ UNCHANGED <<store, server, built, sends, pendingPuts, pendingTx>>
  /\ UNCHANGED wallet

\* claimHookin(hookinDoc)
ClaimHookin(t, h) ==
  /\ FirstFree(t)
  /\ h \in hookins
  /\ IF IsClaimed(h.hash) \/ \E a \in bitcoinAddresses : a.address = h.bitcoinAddress
     THEN ClaimGuard(t, "claimHookin", h, <<>>, NoAddr)
     ELSE /\ out' = Result("claimHookin", "MUST_EXIST", h.hash)
          /\ UNCHANGED tasks
  /\ UNCHANGED <<store, server, built, sends, pendingPuts, pendingTx>>
  /\ UNCHANGED wallet

\* the claim request is answered: makeClaim returns the response and
\* processClaimResponse starts its transaction without awaiting it, or makeClaim
\* throws
ClaimAnswer(t) ==
  /\ tasks[t].op \in {"claimBounty", "claimHookin", "addHookins", "selfClaim", "sync",
                      "checkDirectAddress"}
  /\ tasks[t].pc = "makeClaim"
  /\ \/ \E r \in ClaimResponses(tasks[t].cl) :
          /\ srvClaims' = srvClaims \cup {r}
          /\ pendingTx' = pendingTx \cup {r}
          /\ ClaimFamilyNext(t, tasks[t].op, tasks[t].todo, tasks[t].addr)
     \/ /\ tasks' = [tasks EXCEPT ![t] = Idle]
        /\ out' = IF tasks[t].op = "selfClaim" THEN NoOut
                  ELSE Result(tasks[t].op, "CLAIM_FAILED", tasks[t].cl.hash)
        /\ UNCHANGED <<srvClaims, pendingTx>>
  /\ UNCHANGED <<store, srvTransfers, built, sends, pendingPuts>>
  /\ UNCHANGED wallet

RECURSIVE PutAll(_, _)
PutAll(table, rows) ==
  IF rows = {} THEN table
  ELSE LET r == CHOOSE x \in rows : TRUE IN PutAll(Put(table, r), rows \ {r})

\* ClaimTxRun with the coins written outside the transaction and the Claim record
\* left for later: the variant C11_ClaimAtomic has to tell from ClaimTxRun
ClaimTxRunCoinsOnly(r) ==
  /\ r \in pendingTx
  /\ pendingTx' = pendingTx \ {r}
  /\ IF r.valid /\ seed # Locked
     THEN /\ coins' = PutAll(coins, CoinsOf(r))
          /\ UNCHANGED claims
     ELSE UNCHANGED <<coins, claims>>
  /\ out' = NoOut
  /\ UNCHANGED <<bitcoinAddresses, directAddresses, bounties, hookins, hookouts, transfers,
                 server, built, sends, tasks, pendingPuts>>
  /\ UNCHANGED wallet

\* processClaimResponse lines 171-209: the transaction on coins and claims; a
\* proof that does not verify throws inside it and the transaction aborts
ClaimTxRun(r) ==
  /\ r \in pendingTx
  /\ pendingTx' = pendingTx \ {r}
  /\ IF r.valid /\ seed # Locked
     THEN /\ coins' = PutAll(coins, CoinsOf(r))
          /\ claims' = Put(claims, r)
     ELSE UNCHANGED <<coins, claims>>
  /\ out' = NoOut
  /\ UNCHANGED <<bitcoinAddresses, directAddresses, bounties, hookins, hookouts, transfers,
                 server, built, sends, tasks, pendingPuts>>
  /\ UNCHANGED wallet

\* newBitcoinAddress
NewBitcoinAddress ==
  /\ bitcoinAddresses = {}
  /\ IF seed = Locked
     THEN /\ UNCHANGED bitcoinAddresses
          /\ out' = Result("newBitcoinAddress", "wallet is locked", <<>>)
     ELSE /\ LET d == deriveBitcoinAddressIndex(0) IN
               bitcoinAddresses' = {[hash |-> d.bitcoinAddress, address |-> d.bitcoinAddress,
                                     claimant |-> d.claimant, index |-> 0]}
          /\ out' = Result("newBitcoinAddress", "ok", <<>>)
  /\ UNCHANGED <<directAddresses, bounties, hookins, hookouts, claims, coins, transfers,
                 server, built, sends, tasks, pendingPuts, pendingTx>>
  /\ UNCHANGED wallet

\* addHookins lines 472-487, one receive: the hookin is put and claimHookin called
AddHookinsStep(t, addr, receives) ==
  LET h == HookinDoc(addr, Head(receives)) IN
  /\ hookins' = Put(hookins, h)
  /\ ClaimGuard(t, "addHookins", h, Tail(receives), addr)
  /\ UNCHANGED <<bitcoinAddresses, directAddresses, bounties, hookouts, claims, coins,
                 transfers, server, built, sends, pendingPuts, pendingTx>>

\* addHookins(bitcoinAddressDoc, receives)
AddHookins(t, addr, receives) ==
  /\ FirstFree(t)
  /\ addr \in bitcoinAddresses
  /\ receives \in Receives
  /\ AddHookinsStep(t, addr, receives)
  /\ UNCHANGED wallet

\* addHookins, the next receive of the loop
AddHookinsNext(t) ==
  /\ tasks[t].op = "addHookins"
  /\ tasks[t].pc = "next"
  /\ AddHookinsStep(t, tasks[t].addr, <<tasks[t].cl>> \o tasks[t].todo)
  /\ UNCHANGED wallet

\* finalizeTransfer lines 566-576: the detached loop over the bounties of the
\* acknowledged transfer, one bounty
SelfClaimNext(t) ==
  /\ tasks[t].op = "selfClaim"
  /\ tasks[t].pc = "next"
  /\ IF \E a \in directAddresses : a.claimant = tasks[t].cl.claimant
     THEN ClaimGuard(t, "selfClaim", tasks[t].cl, tasks[t].todo, NoAddr)
     ELSE ClaimFamilyNext(t, "selfClaim", tasks[t].todo, NoAddr)
  /\ UNCHANGED <<store, server, built, sends, pendingPuts, pendingTx>>
  /\ UNCHANGED wallet

\* ---------------------------------------------------- transfer family
RECURSIVE SetToSeq(_)
SetToSeq(S) ==
  IF S = {} THEN <<>>
  ELSE LET x == CHOOSE y \in S : TRUE IN <<x>> \o SetToSeq(S \ {x})

\* the fee a send adds to the amount: sendDirect line 585, sendToBitcoinAddress line 650
Fee(op, feeRate) ==
  IF op = "sendDirect" THEN basicTransferFee ELSE feeRate * templateTransactionWeight

\* newInternalBounty: the next direct address, internal, and a bounty to it
NextDirectIndex ==
  IF directAddresses = {} THEN 0
  ELSE 1 + CHOOSE i \in {a.index : a \in directAddresses} :
             \A a \in directAddresses : a.index <= i

DirectAddressDoc(index, isInternal) ==
  [hash |-> deriveClaimantIndex(index, isInternal),
   claimant |-> deriveClaimantIndex(index, isInternal), index |-> index,
   isInternal |-> isInternal]

BountyDoc(amount, claimant, nonce) ==
  [hash |-> BountyHash(amount, claimant, nonce), amount |-> amount,
   claimant |-> claimant, nonce |-> nonce]

HookoutDoc(amount, nonce) ==
  [hash |-> HookoutHash(amount, nonce), amount |-> amount, nonce |-> nonce]

\* ChangeBounties with the excess left to the server: the variant
\* C20_ValueConserved has to tell from ChangeBounties
ChangeBountiesDropped(excess, nonce) == {}

\* the change bounties of a selection: newInternalBounty(excess) when excess > 0
ChangeBounties(excess, nonce) ==
  IF excess > 0
  THEN {BountyDoc(excess, deriveClaimantIndex(NextDirectIndex, TRUE), nonce)}
  ELSE {}

\* the transfer row sendDirect (lines 628-634) and sendToBitcoinAddress (lines
\* 697-703) add
TransferDoc(found, bountyDocs, hookoutDocs, status) ==
  [hash |-> TransferHash({c.hash : c \in found}, {b.hash : b \in bountyDocs},
                         {h.hash : h \in hookoutDocs}),
   coinHashes |-> {c.hash : c \in found},
   bountyHashes |-> {b.hash : b \in bountyDocs},
   hookoutHash |-> {h.hash : h \in hookoutDocs},
   status |-> status]

\* FinalizeBegin with a check that lets a CONFLICTED document through: the variant
\* C8_NonPendingRejected has to tell from FinalizeBegin
FinalizeBeginLax(t, op, doc) ==
  IF doc.status.kind = "ACKNOWLEDGED"
  THEN /\ tasks' = [tasks EXCEPT ![t] = Idle]
       /\ out' = Entered(op, "NOT_PENDING", doc)
  ELSE /\ tasks' = [tasks EXCEPT ![t] = TransferTask(op, "submit", doc, NoResp, {})]
       /\ out' = Entered(op, "entered", doc)

\* finalizeTransfer lines 506-527: the check of the document's status, then the
\* submit-transfer request leaves
FinalizeBegin(t, op, doc) ==
  IF doc.status.kind # "PENDING"
  THEN /\ tasks' = [tasks EXCEPT ![t] = Idle]
       /\ out' = Entered(op, "NOT_PENDING", doc)
  ELSE /\ tasks' = [tasks EXCEPT ![t] = TransferTask(op, "submit", doc, NoResp, {})]
       /\ out' = Entered(op, "entered", doc)

\* Build that hands the transfer to finalizeTransfer without adding its row: the
\* variant C30_PendingBeforeSubmit has to tell from Build
BuildUnstored(t, op, amount, sel) ==
  LET primaryNonce == 2 * sends + 1
      changeNonce == 2 * sends + 2
      change == ChangeBounties(sel.excess, changeNonce)
      primary == IF op = "sendDirect" THEN {BountyDoc(amount, ForeignKey, primaryNonce)} ELSE {}
      hookout == IF op = "sendDirect" THEN {} ELSE {HookoutDoc(amount, primaryNonce)}
      doc == TransferDoc(sel.found, primary \cup change, hookout, Pending)
  IN /\ bounties' = bounties \cup primary \cup change
     /\ hookouts' = hookouts \cup hookout
     /\ directAddresses' =
          IF sel.excess > 0
          THEN Put(directAddresses, DirectAddressDoc(NextDirectIndex, TRUE))
          ELSE directAddresses
     /\ UNCHANGED transfers
     /\ built' = built \cup {doc.hash}
     /\ sends' = sends + 1
     /\ FinalizeBegin(t, op, doc)

\* the keys sendDirect is asked to pay to: somebody else's, or the claimant of a
\* direct address this wallet gave out
Payees == {ForeignKey} \cup {a.claimant : a \in {d \in directAddresses : ~ d.isInternal}}

\* the storage transaction of sendDirect (lines 587-639) and of
\* sendToBitcoinAddress (lines 652-707) for the selection sel
Build(t, op, amount, sel) ==
  \E to \in Payees :
  LET primaryNonce == 2 * sends + 1
      changeNonce == 2 * sends + 2
      change == ChangeBounties(sel.excess, changeNonce)
      primary == IF op = "sendDirect" THEN {BountyDoc(amount, to, primaryNonce)} ELSE {}
      hookout == IF op = "sendDirect" THEN {} ELSE {HookoutDoc(amount, primaryNonce)}
      doc == TransferDoc(sel.found, primary \cup change, hookout, Pending)
  IN /\ bounties' = bounties \cup primary \cup change
     /\ hookouts' = hookouts \cup hookout
     /\ directAddresses' =
          IF sel.excess > 0
          THEN Put(directAddresses, DirectAddressDoc(NextDirectIndex, TRUE))
          ELSE directAddresses
     /\ transfers' = transfers \cup {doc}
     /\ built' = built \cup {doc.hash}
     /\ sends' = sends + 1
     /\ FinalizeBegin(t, op, doc)

\* Send with the primary bounty or hookout added before the coins are selected:
\* the variant C19_NotEnoughFundsIsAValue has to tell from Send
SendWritesFirst(t, op, amount, feeRate) ==
  /\ FirstFree(t)
  /\ sends < MaxSends
  /\ LET sels == findAtLeast(listUnspent, amount + Fee(op, feeRate)) IN
       IF sels = {}
       THEN /\ out' = Result(op, "NOT_ENOUGH_FUNDS", <<>>)
            /\ bounties' = IF op = "sendDirect"
                           THEN bounties \cup {BountyDoc(amount, ForeignKey, 2 * sends + 1)}
                           ELSE bounties
            /\ hookouts' = IF op = "sendDirect" THEN hookouts
                           ELSE hookouts \cup {HookoutDoc(amount, 2 * sends + 1)}
            /\ UNCHANGED <<directAddresses, transfers, built, sends, tasks>>
       ELSE \E sel \in sels : Build(t, op, amount, sel)
  /\ UNCHANGED <<bitcoinAddresses, hookins, claims, coins, server, pendingPuts, pendingTx>>

\* Send whose first write stays in the store when the wallet is locked: the
\* variant C35_LockedSendLeavesNoTrace has to tell from Send
SendKeepsWrites(t, op, amount, feeRate) ==
  /\ FirstFree(t)
  /\ sends < MaxSends
  /\ LET sels == findAtLeast(listUnspent, amount + Fee(op, feeRate)) IN
       IF sels = {}
       THEN /\ out' = Result(op, "NOT_ENOUGH_FUNDS", <<>>)
            /\ UNCHANGED <<bounties, hookouts, directAddresses, transfers, built, sends, tasks>>
       ELSE IF seed = Locked
            THEN /\ out' = Result(op, "wallet is locked", <<>>)
                 /\ bounties' = IF op = "sendDirect"
                                THEN bounties \cup {BountyDoc(amount, ForeignKey, 2 * sends + 1)}
                                ELSE bounties
                 /\ hookouts' = IF op = "sendDirect" THEN hookouts
                                ELSE hookouts \cup {HookoutDoc(amount, 2 * sends + 1)}
                 /\ UNCHANGED <<directAddresses, transfers, built, sends, tasks>>
            ELSE \E sel \in sels : Build(t, op, amount, sel)
  /\ UNCHANGED <<bitcoinAddresses, hookins, claims, coins, server, pendingPuts, pendingTx>>

\* sendDirect(to, amount) and sendToBitcoinAddress(address, amount, feeRate), up
\* to the submit-transfer request of the finalizeTransfer they call; on a locked
\* wallet deriveClaimantIndex (change) or deriveOwner (line 621, 685) throws
\* inside the storage transaction, which aborts
Send(t, op, amount, feeRate) ==
  /\ FirstFree(t)
  /\ sends < MaxSends
  /\ LET sels == findAtLeast(listUnspent, amount + Fee(op, feeRate)) IN
       IF sels = {}
       THEN /\ out' = Result(op, "NOT_ENOUGH_FUNDS", <<>>)
            /\ UNCHANGED <<bounties, hookouts, directAddresses, transfers, built, sends, tasks>>
       ELSE IF seed = Locked
            THEN /\ out' = Result(op, "wallet is locked", <<>>)
                 /\ UNCHANGED <<bounties, hookouts, directAddresses, transfers, built, sends, tasks>>
            ELSE \E sel \in sels : Build(t, op, amount, sel)
  /\ UNCHANGED <<bitcoinAddresses, hookins, claims, coins, server, pendingPuts, pendingTx>>

SendDirect(t, amount) ==
  /\ Send(t, "sendDirect", amount, 0)
  /\ UNCHANGED wallet

SendToBitcoinAddress(t, amount, feeRate) ==
  /\ Send(t, "sendToBitcoinAddress", amount, feeRate)
  /\ UNCHANGED wallet

\* finalizeTransfer(transferDoc) called with a document the caller holds
FinalizeTransfer(t, doc) ==
  /\ FirstFree(t)
  /\ doc \in CallerDocs
  /\ FinalizeBegin(t, "finalizeTransfer", doc)
  /\ UNCHANGED <<store, server, built, sends, pendingPuts, pendingTx>>
  /\ UNCHANGED wallet

AckResp(hash) == [kind |-> "ACK", acknowledgement |-> Ack(hash)]

InputSpent == [kind |-> "INPUT_SPENT", acknowledgement |-> <<>>]

OtherError == [kind |-> "OTHER", acknowledgement |-> <<>>]

Answered(t, resp) ==
  tasks' = [tasks EXCEPT ![t] = [tasks[t] EXCEPT !.pc = "answered", !.resp = resp]]

\* submit-transfer at the settlement server: a transfer one of whose inputs
\* another transfer consumed is rejected with INPUT_SPENT; a transfer the server
\* has already accepted is acknowledged again or rejected as spent; any other
\* transfer is accepted, and the acknowledgement arrives or is lost on the way;
\* or the request fails before the server decides anything
ServerSubmit(t) ==
  /\ tasks[t].op \in {"sendDirect", "sendToBitcoinAddress", "finalizeTransfer"}
  /\ tasks[t].pc = "submit"
  /\ LET T == tasks[t].doc.hash
         spent == \E U \in srvTransfers : U # T /\ Inputs(U) \cap Inputs(T) # {}
     IN \/ /\ spent
           /\ Answered(t, InputSpent)
           /\ UNCHANGED srvTransfers
        \/ /\ ~spent
           /\ T \in srvTransfers
           /\ \E resp \in {AckResp(T), InputSpent} : Answered(t, resp)
           /\ UNCHANGED srvTransfers
        \/ /\ ~spent
           /\ T \notin srvTransfers
           /\ srvTransfers' = srvTransfers \cup {T}
           /\ \E resp \in {AckResp(T), OtherError} : Answered(t, resp)
        \/ /\ Answered(t, OtherError)
           /\ UNCHANGED srvTransfers
  /\ out' = NoOut
  /\ UNCHANGED <<store, srvClaims, built, sends, pendingPuts, pendingTx>>
  /\ UNCHANGED wallet

\* the bounty documents finalizeTransfer read for the transfer (lines 512-516)
BountyDocsOf(doc) == SetToSeq({b \in bounties : b.hash \in doc.bountyHashes})

\* finalizeTransfer lines 530-532: INPUT_SPENT, the loop over the inputs starts
OnInputSpent(t) ==
  /\ tasks' = [tasks EXCEPT ![t] = [tasks[t] EXCEPT !.pc = "reconcile",
                                                     !.todo = tasks[t].doc.coinHashes]]
  /\ out' = NoOut
  /\ UNCHANGED pendingPuts

\* OnOtherError that gives the transfer up as it does on INPUT_SPENT: the variant
\* C6_OtherErrorKeepsPending has to tell from OnOtherError
OnOtherErrorGivesUp(t) ==
  /\ tasks' = [tasks EXCEPT ![t] = Idle]
  /\ out' = Result(tasks[t].op, "OTHER", tasks[t].doc.hash)
  /\ pendingPuts' = pendingPuts \cup
       {UnawaitedPut([tasks[t].doc EXCEPT !.status = Conflicted], "finalizeTransfer", {}, {})}

\* finalizeTransfer lines 560-561: any other error is thrown to the caller
OnOtherError(t) ==
  /\ tasks' = [tasks EXCEPT ![t] = Idle]
  /\ out' = Result(tasks[t].op, "OTHER", tasks[t].doc.hash)
  /\ UNCHANGED pendingPuts

\* finalizeTransfer lines 566-579: the detached loop over the bounties starts,
\* then the document is marked ACKNOWLEDGED and its put is issued and awaited
OnAcknowledged(t) ==
  LET doc == tasks[t].doc
      bountyDocs == BountyDocsOf(doc)
      acked == [tasks[t] EXCEPT !.pc = "ackput",
                  !.doc = [doc EXCEPT !.status = Acknowledged(tasks[t].resp.acknowledgement)]]
  IN /\ IF bountyDocs = <<>>
        THEN tasks' = [tasks EXCEPT ![t] = acked]
        ELSE \E s \in Tasks :
               /\ s # t
               /\ Free(s)
               /\ \A u \in Tasks : (u < s /\ u # t) => ~Free(u)
               /\ tasks' = [tasks EXCEPT ![t] = acked,
                    ![s] = ClaimTask("selfClaim", "next", Head(bountyDocs), Tail(bountyDocs), NoAddr)]
     /\ out' = NoOut
     /\ UNCHANGED pendingPuts

\* finalizeTransfer lines 529-578: what the call does with the server's answer, up
\* to its next await
FinalizeResume(t) ==
  /\ tasks[t].op \in {"sendDirect", "sendToBitcoinAddress", "finalizeTransfer"}
  /\ tasks[t].pc = "answered"
  /\ CASE tasks[t].resp.kind = "INPUT_SPENT" -> OnInputSpent(t)
       [] tasks[t].resp.kind = "OTHER" -> OnOtherError(t)
       [] tasks[t].resp.kind = "ACK" -> OnAcknowledged(t)
  /\ UNCHANGED <<store, server, built, sends, pendingTx>>
  /\ UNCHANGED wallet

\* FinalizeAckPut whose put is not awaited, as the put of the INPUT_SPENT branch is
\* not: the variant C7_AcknowledgedOnReturn has to tell from FinalizeAckPut
FinalizeAckPutUnawaited(t) ==
  /\ tasks[t].op \in {"sendDirect", "sendToBitcoinAddress", "finalizeTransfer"}
  /\ tasks[t].pc = "ackput"
  /\ pendingPuts' = pendingPuts \cup {UnawaitedPut(tasks[t].doc, "finalizeTransfer", {}, {})}
  /\ tasks' = [tasks EXCEPT ![t] = Idle]
  /\ out' = Result(tasks[t].op, "ok", tasks[t].doc.hash)
  /\ UNCHANGED <<store, server, built, sends, pendingTx>>
  /\ UNCHANGED wallet

\* finalizeTransfer lines 578-579: the awaited put of the acknowledged document
\* lands and the call returns
FinalizeAckPut(t) ==
  /\ tasks[t].op \in {"sendDirect", "sendToBitcoinAddress", "finalizeTransfer"}
  /\ tasks[t].pc = "ackput"
  /\ transfers' = Put(transfers, tasks[t].doc)
  /\ tasks' = [tasks EXCEPT ![t] = Idle]
  /\ out' = Result(tasks[t].op, "ok", tasks[t].doc.hash)
  /\ UNCHANGED <<bitcoinAddresses, directAddresses, bounties, hookins, hookouts, claims, coins,
                 server, built, sends, pendingPuts, pendingTx>>
  /\ UNCHANGED wallet

\* finalizeTransfer lines 532-554: one input of the loop over transferDoc.inputs
Reconcile(t) ==
  /\ tasks[t].op \in {"sendDirect", "sendToBitcoinAddress", "finalizeTransfer"}
  /\ tasks[t].pc = "reconcile"
  /\ tasks[t].todo # {}
  /\ LET coin == CHOOSE c \in tasks[t].todo : TRUE
         rest == [tasks[t] EXCEPT !.todo = tasks[t].todo \ {coin}]
     IN \/ /\ lookupCoin(coin) = {}
           /\ tasks' = [tasks EXCEPT ![t] = rest]
           /\ UNCHANGED transfers
        \/ \E U \in lookupCoin(coin) :
             \/ /\ transfers' = Put(transfers, ConflictTransferDoc(U))
                /\ tasks' = [tasks EXCEPT ![t] =
                     [rest EXCEPT !.named = @ \cup {coin}, !.fetched = @ \cup {U}]]
             \/ /\ UNCHANGED transfers
                /\ tasks' = [tasks EXCEPT ![t] = [rest EXCEPT !.named = @ \cup {coin}]]
  /\ out' = NoOut
  /\ UNCHANGED <<bitcoinAddresses, directAddresses, bounties, hookins, hookouts, claims, coins,
                 server, built, sends, pendingPuts, pendingTx>>
  /\ UNCHANGED wallet

\* finalizeTransfer lines 556-561: the document is marked CONFLICTED, its put is
\* issued and not awaited, and the server's error is thrown
ReconcileDone(t) ==
  /\ tasks[t].op \in {"sendDirect", "sendToBitcoinAddress", "finalizeTransfer"}
  /\ tasks[t].pc = "reconcile"
  /\ tasks[t].todo = {}
  /\ Cardinality(pendingPuts) < MaxPending
  /\ pendingPuts' = pendingPuts \cup
       {UnawaitedPut([tasks[t].doc EXCEPT !.status = Conflicted], "finalizeTransfer",
                     tasks[t].named, tasks[t].fetched)}
  /\ tasks' = [tasks EXCEPT ![t] = Idle]
  /\ out' = Result(tasks[t].op, "INPUT_SPENT", tasks[t].doc.hash)
  /\ UNCHANGED <<store, server, built, sends, pendingTx>>
  /\ UNCHANGED wallet

\* discardTransfer(transferDoc)
DiscardTransfer(doc) ==
  /\ doc \in CallerDocs
  /\ IF doc.status.kind # "PENDING"
     THEN /\ out' = Entered("discardTransfer", "NOT_PENDING", doc)
          /\ UNCHANGED pendingPuts
     ELSE /\ Cardinality(pendingPuts) < MaxPending
          /\ pendingPuts' = pendingPuts \cup
               {UnawaitedPut([doc EXCEPT !.status = Conflicted], "discardTransfer", {}, {})}
          /\ out' = Entered("discardTransfer", "ok", doc)
  /\ UNCHANGED <<store, server, built, sends, tasks, pendingTx>>
  /\ UNCHANGED wallet

\* a transfers.put that was issued and not awaited reaches the store
PutLands(p) ==
  /\ p \in pendingPuts
  /\ pendingPuts' = pendingPuts \ {p}
  /\ transfers' = Put(transfers, p.row)
  /\ out' = NoOut
  /\ UNCHANGED <<bitcoinAddresses, directAddresses, bounties, hookins, hookouts, claims, coins,
                 server, built, sends, tasks, pendingTx>>
  /\ UNCHANGED wallet

\* another holder of the seed spends coins of this wallet at the server
ExternalSpend(S) ==
  /\ S # {}
  /\ S \subseteq {c.hash : c \in coins}
  /\ \A U \in srvTransfers : Inputs(U) \cap S = {}
  /\ Cardinality({U \in srvTransfers : U \notin built}) < MaxExternal
  /\ srvTransfers' = srvTransfers \cup {ExternalTransfer(S)}
  /\ out' = NoOut
  /\ UNCHANGED <<store, srvClaims, built, sends, tasks, pendingPuts, pendingTx>>
  /\ UNCHANGED wallet

\* ------------------------------------------------------ specifications
\* the wallet right after restore: every table but config is empty
InitClaims ==
  /\ bitcoinAddresses = {}
  /\ directAddresses = {}
  /\ bounties = {}
  /\ hookins = {}
  /\ hookouts = {}
  /\ claims = {}
  /\ coins = {}
  /\ transfers = {}
  /\ srvTransfers = {}
  /\ srvClaims = {}
  /\ built = {}
  /\ sends = 0
  /\ tasks = [t \in Tasks |-> Idle]
  /\ pendingPuts = {}
  /\ pendingTx = {}
  /\ out = NoOut
  /\ seed = RestoredSeed
  /\ config = RestoredConfig
  /\ now = 0

\* discovery and claims
NextClaims ==
  \/ NewBitcoinAddress
  \/ \E t \in Tasks, a \in bitcoinAddresses, rs \in Receives : AddHookins(t, a, rs)
  \/ \E t \in Tasks : AddHookinsNext(t)
  \/ \E t \in Tasks, h \in hookins : ClaimHookin(t, h)
  \/ \E t \in Tasks : ClaimAnswer(t)
  \/ \E r \in pendingTx : ClaimTxRun(r)

SpecClaims == InitClaims /\ [][NextClaims]_vars

\* time passes between two readings of new Date()
Tick ==
  /\ now < MaxTime
  /\ now' = now + 1
  /\ UNCHANGED <<store, server, built, sends, tasks, pendingPuts, pendingTx, out, seed, config>>

\* discovery and claims while time passes: an address is scanned again later
NextRescan ==
  \/ NewBitcoinAddress
  \/ \E t \in Tasks, a \in bitcoinAddresses, rs \in Receives : AddHookins(t, a, rs)
  \/ \E t \in Tasks : AddHookinsNext(t)
  \/ \E t \in Tasks, h \in hookins : ClaimHookin(t, h)
  \/ \E t \in Tasks : ClaimAnswer(t)
  \/ \E r \in pendingTx : ClaimTxRun(r)
  \/ Tick

SpecRescan == InitClaims /\ [][NextRescan]_vars

\* --------------------------------------------------- direct addresses
\* newDirectAddress: the address of index max + 1, isInternal false
NewDirectAddress ==
  /\ Cardinality(directAddresses) < MaxDirectAddresses
  /\ IF seed = Locked
     THEN /\ UNCHANGED directAddresses
          /\ out' = Result("newDirectAddress", "wallet is locked", <<>>)
     ELSE /\ directAddresses' = Put(directAddresses, DirectAddressDoc(NextDirectIndex, FALSE))
          /\ out' = Result("newDirectAddress", "ok", <<>>)
  /\ UNCHANGED <<bitcoinAddresses, bounties, hookins, hookouts, claims, coins, transfers,
                 server, built, sends, tasks, pendingPuts, pendingTx>>
  /\ UNCHANGED wallet

\* the bounties somebody sent to the claimant of the direct address a: what
\* lookupBountiesByClaimant may list
ServerBounties(a) == {BountyDoc(3, a.claimant, 1), BountyDoc(4, a.claimant, 2)}

\* checkDirectAddress(directAddressDoc), the server listing the bounties listed
CheckDirectAddress(t, a, listed) ==
  /\ FirstFree(t)
  /\ a \in directAddresses
  /\ listed \subseteq ServerBounties(a)
  /\ ClaimFamilyNext(t, "checkDirectAddress", SetToSeq(listed), a)
  /\ UNCHANGED <<store, server, built, sends, pendingPuts, pendingTx>>
  /\ UNCHANGED wallet

\* checkDirectAddress lines 458-467, one listed bounty: bounties.add, which
\* rejects a key the table holds, then claimBountyWithAddress
CheckDirectAddressNext(t) ==
  /\ tasks[t].op = "checkDirectAddress"
  /\ tasks[t].pc = "next"
  /\ IF \E b \in bounties : b.hash = tasks[t].cl.hash
     THEN /\ tasks' = [tasks EXCEPT ![t] = Idle]
          /\ out' = Result("checkDirectAddress", "ConstraintError", tasks[t].cl.hash)
          /\ UNCHANGED bounties
     ELSE /\ bounties' = bounties \cup {tasks[t].cl}
          /\ ClaimGuard(t, "checkDirectAddress", tasks[t].cl, tasks[t].todo, tasks[t].addr)
  /\ UNCHANGED <<bitcoinAddresses, directAddresses, hookins, hookouts, claims, coins,
                 transfers, server, built, sends, pendingPuts, pendingTx>>
  /\ UNCHANGED wallet

\* deposits to a bitcoin address and bounties to a direct address, and their claims
NextDirect ==
  \/ NewBitcoinAddress
  \/ \E t \in Tasks, a \in bitcoinAddresses, rs \in Receives : AddHookins(t, a, rs)
  \/ \E t \in Tasks : AddHookinsNext(t)
  \/ NewDirectAddress
  \/ \E t \in Tasks, a \in directAddresses :
       \E listed \in SUBSET ServerBounties(a) : CheckDirectAddress(t, a, listed)
  \/ \E t \in Tasks : CheckDirectAddressNext(t)
  \/ \E t \in Tasks : ClaimAnswer(t)
  \/ \E r \in pendingTx : ClaimTxRun(r)

SpecDirect == InitClaims /\ [][NextDirect]_vars

\* the wallet after newBitcoinAddress, addHookins of one receipt of 7 and its
\* claim: the coins of magnitudes 1 and 2 are in the store
FundingAddress ==
  [hash |-> deriveBitcoinAddressIndex(0).bitcoinAddress,
   address |-> deriveBitcoinAddressIndex(0).bitcoinAddress,
   claimant |-> deriveBitcoinAddressIndex(0).claimant, index |-> 0]

FundingHookin == HookinDoc(FundingAddress, [txid |-> 1, vout |-> 0, amount |-> 7])

FundingClaim ==
  [hash |-> FundingHookin.hash, nonce |-> 1,
   magnitudes |-> amountToMagnitudes(ClaimAmount(FundingHookin)), valid |-> TRUE]

InitTransfers ==
  /\ seed = RestoredSeed
  /\ config = RestoredConfig
  /\ now = 0
  /\ bitcoinAddresses = {FundingAddress}
  /\ directAddresses = {}
  /\ bounties = {}
  /\ hookins = {FundingHookin}
  /\ hookouts = {}
  /\ claims = {FundingClaim}
  /\ coins = CoinsOf(FundingClaim)
  /\ transfers = {}
  /\ srvTransfers = {}
  /\ srvClaims = {FundingClaim}
  /\ built = {}
  /\ sends = 0
  /\ tasks = [t \in Tasks |-> Idle]
  /\ pendingPuts = {}
  /\ pendingTx = {}
  /\ out = NoOut

\* sends, finalize, discard, and the claims of the change a send made.  The
\* caller serializes its calls of sendDirect, sendToBitcoinAddress,
\* finalizeTransfer and claimBounty (they run in slot 1); discardTransfer, which
\* awaits nothing, and the detached work run beside them
NextTransfers ==
  \/ \E amount \in Amounts : SendDirect(1, amount)
  \/ \E amount \in Amounts, feeRate \in FeeRates : SendToBitcoinAddress(1, amount, feeRate)
  \/ \E doc \in CallerDocs : FinalizeTransfer(1, doc)
  \/ \E t \in Tasks : ServerSubmit(t)
  \/ \E t \in Tasks : FinalizeResume(t)
  \/ \E t \in Tasks : FinalizeAckPut(t)
  \/ \E t \in Tasks : Reconcile(t)
  \/ \E t \in Tasks : ReconcileDone(t)
  \/ \E doc \in CallerDocs : DiscardTransfer(doc)
  \/ \E p \in pendingPuts : PutLands(p)
  \/ \E c \in coins : ExternalSpend({c.hash})
  \/ \E b \in bounties : ClaimBounty(1, b)
  \/ \E t \in Tasks : SelfClaimNext(t)
  \/ \E t \in Tasks : ClaimAnswer(t)
  \/ \E r \in pendingTx : ClaimTxRun(r)

SpecTransfers == InitTransfers /\ [][NextTransfers]_vars

\* ------------------------------------------------------------- sync
\* addBitcoinAddress(index): the row it puts
BitcoinAddressDoc(index) ==
  LET d == deriveBitcoinAddressIndex(index) IN
  [hash |-> d.bitcoinAddress, address |-> d.bitcoinAddress, claimant |-> d.claimant,
   index |-> index]

\* fetchBitcoinReceives(address) when the derivation indices in used have
\* receipts: one receipt per used address
fetchBitcoinReceives(index, used) ==
  IF index \in used
  THEN <<[txid |-> index + 1, vout |-> 0, amount |-> transactionConsolidationFee + 1]>>
  ELSE <<>>

\* bitcoinAddresses.orderBy('index').toArray()
RECURSIVE OrderByIndex(_)
OrderByIndex(S) ==
  IF S = {} THEN <<>>
  ELSE LET first == CHOOSE a \in S : \A b \in S : a.index <= b.index
       IN <<first>> \o OrderByIndex(S \ {first})

GapLimits == 2..MaxGapLimit

\* the sets of derivation indices that have receipts: every used address costs
\* the server one claim round trip
UsedPatterns == {u \in SUBSET (0..MaxUsedIndex) : Cardinality(u) <= MaxRoundTrips}

\* a call of sync(): the locals of syncBitcoinAddresses (gapLimit, gapCount, the
\* stored addresses still to check, lastAddressIndex, checkIndex), the receipts
\* the block explorer reports during this call (used), whether syncHookins has
\* begun (sweep), and the probes made so far as pairs <<index, hit>>
SyncTask(pc, addresses, used, gapLimit) ==
  [op |-> "sync", pc |-> pc, cl |-> NoAddr, todo |-> <<>>, addr |-> NoAddr,
   gapLimit |-> gapLimit, gapCount |-> 0, known |-> addresses,
   lastAddressIndex |-> IF addresses = <<>> THEN -1 ELSE addresses[Len(addresses)].index,
   checkIndex |-> IF addresses = <<>> THEN 0 ELSE addresses[Len(addresses)].index + 1,
   firstIndex |-> IF addresses = <<>> THEN 0 ELSE addresses[Len(addresses)].index + 1,
   used |-> used, sweep |-> FALSE, probes |-> <<>>, addIndex |-> 0]

\* sync() -> syncBitcoinAddresses lines 297-300: the gap limit of the config row and the
\* stored addresses are read; receipts once seen do not go away; one sync() runs
\* at a time
Sync(t, used) ==
  /\ FirstFree(t)
  /\ \A u \in Tasks : tasks[u].op # "sync"
  /\ \A h \in hookins : \E a \in bitcoinAddresses :
       a.address = h.bitcoinAddress /\ a.index \in used
  /\ \E c \in config :
       tasks' = [tasks EXCEPT ![t] = SyncTask("scan", OrderByIndex(bitcoinAddresses), used, c.gapLimit)]
  /\ out' = NoOut
  /\ UNCHANGED <<store, server, built, sends, pendingPuts, pendingTx>>
  /\ UNCHANGED wallet

\* syncBitcoinAddresses lines 302-305 with checkBitcoinAddress lines 403-409: the
\* next stored address is looked up; its receipts, if any, go to addHookins
SyncCheckAddress(t) ==
  /\ tasks[t].op = "sync"
  /\ tasks[t].pc = "scan"
  /\ tasks[t].known # <<>>
  /\ LET a == Head(tasks[t].known)
         receives == fetchBitcoinReceives(a.index, tasks[t].used)
         probes == Append(tasks[t].probes, <<a.index, receives # <<>>>>)
     IN tasks' = [tasks EXCEPT ![t] =
          IF receives = <<>>
          THEN [tasks[t] EXCEPT !.gapCount = @ + 1, !.known = Tail(@), !.probes = probes]
          ELSE [tasks[t] EXCEPT !.pc = "addHookins", !.addr = a, !.todo = receives,
                                !.probes = probes]]
  /\ out' = NoOut
  /\ UNCHANGED <<store, server, built, sends, pendingPuts, pendingTx>>
  /\ UNCHANGED wallet

\* SyncProbe with the probed address stored whether or not it has receipts: the
\* variant C13_GapLimitExampleAsCoded has to tell from SyncProbe
SyncProbeStoresEmpty(t) ==
  /\ tasks[t].op = "sync"
  /\ tasks[t].pc = "scan"
  /\ tasks[t].known = <<>>
  /\ tasks[t].gapCount < tasks[t].gapLimit
  /\ LET checkIndex == tasks[t].checkIndex
         receives == fetchBitcoinReceives(checkIndex, tasks[t].used)
         probes == Append(tasks[t].probes, <<checkIndex, receives # <<>>>>)
     IN /\ bitcoinAddresses' = Put(bitcoinAddresses, BitcoinAddressDoc(checkIndex))
        /\ tasks' = [tasks EXCEPT ![t] =
              IF receives = <<>>
              THEN [tasks[t] EXCEPT !.gapCount = @ + 1, !.checkIndex = @ + 1, !.probes = probes]
              ELSE [tasks[t] EXCEPT !.pc = "fill", !.addr = BitcoinAddressDoc(checkIndex),
                                    !.todo = receives, !.probes = probes,
                                    !.addIndex = tasks[t].lastAddressIndex]]
  /\ out' = NoOut
  /\ UNCHANGED <<directAddresses, bounties, hookins, hookouts, claims, coins, transfers,
                 server, built, sends, pendingPuts, pendingTx>>
  /\ UNCHANGED wallet

\* syncBitcoinAddresses lines 309-329: one turn of the loop over the indices
\* after the stored ones, up to the answer of fetchBitcoinReceives; on a hit
\* the loop over the skipped indices starts at checkIndex - 1
SyncProbe(t) ==
  /\ tasks[t].op = "sync"
  /\ tasks[t].pc = "scan"
  /\ tasks[t].known = <<>>
  /\ tasks[t].gapCount < tasks[t].gapLimit
  /\ LET checkIndex == tasks[t].checkIndex
         receives == fetchBitcoinReceives(checkIndex, tasks[t].used)
         probes == Append(tasks[t].probes, <<checkIndex, receives # <<>>>>)
     IN tasks' = [tasks EXCEPT ![t] =
          IF receives = <<>>
          THEN [tasks[t] EXCEPT !.gapCount = @ + 1, !.checkIndex = @ + 1, !.probes = probes]
          ELSE [tasks[t] EXCEPT !.pc = "fill", !.addr = BitcoinAddressDoc(checkIndex),
                                !.todo = receives, !.probes = probes,
                                !.addIndex = checkIndex - 1]]
  /\ out' = NoOut
  /\ UNCHANGED <<store, server, built, sends, pendingPuts, pendingTx>>
  /\ UNCHANGED wallet

\* SyncFill that adds the address of the hit and none of the skipped ones: the
\* variant C33_IndicesContiguous has to tell from SyncFill
SyncFillHitOnly(t) ==
  /\ tasks[t].op = "sync"
  /\ tasks[t].pc = "fill"
  /\ bitcoinAddresses' = Put(bitcoinAddresses, BitcoinAddressDoc(tasks[t].checkIndex))
  /\ tasks' = [tasks EXCEPT ![t] = [tasks[t] EXCEPT !.pc = "addHookins"]]
  /\ out' = NoOut
  /\ UNCHANGED <<directAddresses, bounties, hookins, hookouts, claims, coins, transfers,
                 server, built, sends, pendingPuts, pendingTx>>
  /\ UNCHANGED wallet

\* syncBitcoinAddresses lines 316-321: addBitcoinAddress of the next skipped
\* index, going down to lastAddressIndex + 1, and after the last of them
\* addBitcoinAddress of the hit, whose receipts then go to addHookins
SyncFill(t) ==
  /\ tasks[t].op = "sync"
  /\ tasks[t].pc = "fill"
  /\ IF tasks[t].addIndex > tasks[t].lastAddressIndex
     THEN /\ bitcoinAddresses' = Put(bitcoinAddresses, BitcoinAddressDoc(tasks[t].addIndex))
          /\ tasks' = [tasks EXCEPT ![t] = [tasks[t] EXCEPT !.addIndex = @ - 1]]
     ELSE /\ bitcoinAddresses' = Put(bitcoinAddresses, BitcoinAddressDoc(tasks[t].checkIndex))
          /\ tasks' = [tasks EXCEPT ![t] = [tasks[t] EXCEPT !.pc = "addHookins"]]
  /\ out' = NoOut
  /\ UNCHANGED <<directAddresses, bounties, hookins, hookouts, claims, coins, transfers,
                 server, built, sends, pendingPuts, pendingTx>>
  /\ UNCHANGED wallet

\* addHookins lines 471-488 as called by the scan: the hookin of the next receipt
\* is put and claimHookin is called on it
SyncAddHookins(t) ==
  /\ tasks[t].op = "sync"
  /\ tasks[t].pc \in {"addHookins", "next"}
  /\ ~ tasks[t].sweep
  /\ LET receives == IF tasks[t].pc = "next" THEN <<tasks[t].cl>> \o tasks[t].todo
                     ELSE tasks[t].todo
         h == HookinDoc(tasks[t].addr, Head(receives))
     IN /\ hookins' = Put(hookins, h)
        /\ ClaimGuard(t, "sync", h, Tail(receives), tasks[t].addr)
  /\ UNCHANGED <<bitcoinAddresses, directAddresses, bounties, hookouts, claims, coins,
                 transfers, server, built, sends, pendingPuts, pendingTx>>
  /\ UNCHANGED wallet

\* SyncResume with the gap counter left as it was after a hit: the variant
\* C14_GapCounterOnNewIndices has to tell from SyncResume
SyncResumeKeepsCount(t) ==
  /\ tasks[t].op = "sync"
  /\ tasks[t].pc = "resume"
  /\ IF tasks[t].sweep
     THEN /\ tasks' = [tasks EXCEPT ![t] = Idle]
          /\ out' = Result("sync", "ok", <<>>)
     ELSE /\ tasks' = [tasks EXCEPT ![t] =
                IF tasks[t].known # <<>>
                THEN [tasks[t] EXCEPT !.pc = "scan", !.gapCount = @ + 1, !.known = Tail(@)]
                ELSE [tasks[t] EXCEPT !.pc = "scan", !.gapCount = @ + 1,
                                      !.lastAddressIndex = tasks[t].checkIndex,
                                      !.checkIndex = @ + 1]]
          /\ out' = NoOut
  /\ UNCHANGED <<store, server, built, sends, pendingPuts, pendingTx>>
  /\ UNCHANGED wallet

\* the call of addHookins, or the loop of syncHookins, is over: lines 304 and
\* 323-324 set the gap counter back and go on; sync() returns after syncHookins
SyncResume(t) ==
  /\ tasks[t].op = "sync"
  /\ tasks[t].pc = "resume"
  /\ IF tasks[t].sweep
     THEN /\ tasks' = [tasks EXCEPT ![t] = Idle]
          /\ out' = Result("sync", "ok", <<>>)
     ELSE /\ tasks' = [tasks EXCEPT ![t] =
                IF tasks[t].known # <<>>
                THEN [tasks[t] EXCEPT !.pc = "scan", !.gapCount = 0, !.known = Tail(@)]
                ELSE [tasks[t] EXCEPT !.pc = "scan", !.gapCount = 0,
                                      !.lastAddressIndex = tasks[t].checkIndex,
                                      !.checkIndex = @ + 1]]
          /\ out' = NoOut
  /\ UNCHANGED <<store, server, built, sends, pendingPuts, pendingTx>>
  /\ UNCHANGED wallet

\* syncBitcoinAddresses has left its loop (line 309: gapCount < gapLimit is
\* false) and returned
ScanOver(t) ==
  /\ tasks[t].op = "sync"
  /\ tasks[t].pc = "scan"
  /\ tasks[t].known = <<>>
  /\ tasks[t].gapCount >= tasks[t].gapLimit

\* syncHookins lines 340-349: the hookins without a Claim record are collected
SyncHookins(t) ==
  /\ ScanOver(t)
  /\ LET unclaimed == SetToSeq({h \in hookins : ~ IsClaimed(h.hash)}) IN
       IF unclaimed = <<>>
       THEN /\ tasks' = [tasks EXCEPT ![t] = Idle]
            /\ out' = Result("sync", "ok", <<>>)
       ELSE /\ tasks' = [tasks EXCEPT ![t] =
                  [tasks[t] EXCEPT !.pc = "next", !.sweep = TRUE,
                                   !.cl = Head(unclaimed), !.todo = Tail(unclaimed)]]
            /\ out' = NoOut
  /\ UNCHANGED <<store, server, built, sends, pendingPuts, pendingTx>>
  /\ UNCHANGED wallet

\* syncHookins lines 351-353: claimHookin on the next collected hookin
SyncClaimHookin(t) ==
  /\ tasks[t].op = "sync"
  /\ tasks[t].pc = "next"
  /\ tasks[t].sweep
  /\ ClaimGuard(t, "sync", tasks[t].cl, tasks[t].todo, NoAddr)
  /\ UNCHANGED <<store, server, built, sends, pendingPuts, pendingTx>>
  /\ UNCHANGED wallet

\* the steps a call of sync() takes by itself or on an answer it awaits
SyncStep(t) ==
  \/ SyncCheckAddress(t)
  \/ SyncProbe(t)
  \/ SyncFill(t)
  \/ SyncAddHookins(t)
  \/ SyncResume(t)
  \/ SyncHookins(t)
  \/ SyncClaimHookin(t)
  \/ tasks[t].op = "sync" /\ ClaimAnswer(t)

\* the wallet after 0..MaxStored calls of newBitcoinAddress, its config row
\* holding one of the gap limits
InitSync ==
  /\ \E n \in 0..MaxStored : bitcoinAddresses = {BitcoinAddressDoc(i) : i \in 0..(n - 1)}
  /\ directAddresses = {}
  /\ bounties = {}
  /\ hookins = {}
  /\ hookouts = {}
  /\ claims = {}
  /\ coins = {}
  /\ transfers = {}
  /\ srvTransfers = {}
  /\ srvClaims = {}
  /\ built = {}
  /\ sends = 0
  /\ tasks = [t \in Tasks |-> Idle]
  /\ pendingPuts = {}
  /\ pendingTx = {}
  /\ out = NoOut
  /\ seed = RestoredSeed
  /\ \E g \in GapLimits : config = {[ConfigDoc("m1", "p1") EXCEPT !.gapLimit = g]}
  /\ now = 0

NextSync ==
  \/ \E t \in Tasks, used \in UsedPatterns : Sync(t, used)
  \/ \E t \in Tasks : SyncStep(t)
  \/ \E r \in pendingTx : ClaimTxRun(r)

SpecSync == InitSync /\ [][NextSync]_vars

\* bitcoinAddresses.orderBy('index').last(): the stored address of the largest index
LastAddress == CHOOSE a \in bitcoinAddresses : \A b \in bitcoinAddresses : b.index <= a.index

\* newBitcoinAddress on a wallet that holds addresses: the address of the largest
\* stored index plus 1 is added
NewBitcoinAddressNext ==
  /\ bitcoinAddresses # {}
  /\ Cardinality(bitcoinAddresses) <= MaxStored
  /\ IF seed = Locked
     THEN /\ UNCHANGED bitcoinAddresses
          /\ out' = Result("newBitcoinAddress", "wallet is locked", <<>>)
     ELSE /\ bitcoinAddresses' = Put(bitcoinAddresses, BitcoinAddressDoc(LastAddress.index + 1))
          /\ out' = Result("newBitcoinAddress", "ok", <<>>)
  /\ UNCHANGED <<directAddresses, bounties, hookins, hookouts, claims, coins, transfers,
                 server, built, sends, tasks, pendingPuts, pendingTx>>
  /\ UNCHANGED wallet

\* getUnusedBitcoinAddress: the last address when no hookin refers to it, else
\* the address of the next index is added; the address of index 0 on an empty table
GetUnusedBitcoinAddress ==
  /\ Cardinality(bitcoinAddresses) <= MaxStored
  /\ IF bitcoinAddresses # {} /\ ~ \E h \in hookins : h.bitcoinAddress = LastAddress.address
     THEN /\ UNCHANGED bitcoinAddresses
          /\ out' = Result("getUnusedBitcoinAddress", "ok", LastAddress.address)
     ELSE IF seed = Locked
          THEN /\ UNCHANGED bitcoinAddresses
               /\ out' = Result("getUnusedBitcoinAddress", "wallet is locked", <<>>)
          ELSE LET index == IF bitcoinAddresses = {} THEN 0 ELSE LastAddress.index + 1 IN
               /\ bitcoinAddresses' = Put(bitcoinAddresses, BitcoinAddressDoc(index))
               /\ out' = Result("getUnusedBitcoinAddress", "ok", BitcoinAddressDoc(index).address)
  /\ UNCHANGED <<directAddresses, bounties, hookins, hookouts, claims, coins, transfers,
                 server, built, sends, tasks, pendingPuts, pendingTx>>
  /\ UNCHANGED wallet

\* sync() run beside calls of newBitcoinAddress and getUnusedBitcoinAddress
NextAddresses ==
  \/ NewBitcoinAddress
  \/ NewBitcoinAddressNext
  \/ GetUnusedBitcoinAddress
  \/ \E t \in Tasks, used \in UsedPatterns : Sync(t, used)
  \/ \E t \in Tasks : SyncStep(t)
  \/ \E r \in pendingTx : ClaimTxRun(r)

SpecAddresses == InitSync /\ [][NextAddresses]_vars

\* every step of a sync() is taken once it can be: the event loop runs a
\* continuation when the request it awaits has settled
FairSpecSync == SpecSync /\ \A t \in Tasks : WF_vars(SyncStep(t))

\* ------------------------------------------- setup, unlock and derivation
ValidMnemonics == {"m1"}

Mnemonics == ValidMnemonics \cup {"not a mnemonic"}

Passwords == {"p1", "p2"}

\* what restore, create and unlock hand back, with the mnemonic and password
\* they were called with
SetupResult(op, res, mnemonic, password) ==
  [op |-> op, res |-> res, hash |-> <<mnemonic, password>>, arg |-> ""]

\* restore with config.put in the place of config.add: the variant
\* C23_ConfigSingletonImmutable has to tell from restore
restoreOverwrites(op, mnemonic, password) ==
  /\ IF mnemonic \notin ValidMnemonics
     THEN /\ out' = SetupResult(op, "INVALID_MNEMONIC", mnemonic, password)
          /\ UNCHANGED <<seed, config>>
     ELSE /\ config' = {ConfigDoc(mnemonic, password)}
          /\ seed' = mnemonicToSeed(mnemonic, password)
          /\ out' = SetupResult(op, "ok", mnemonic, password)
  /\ UNCHANGED <<store, server, built, sends, tasks, pendingPuts, pendingTx, now>>

\* Database.restore(name, mnemonic, password) lines 95-128, as called by op
restore(op, mnemonic, password) ==
  /\ IF mnemonic \notin ValidMnemonics
     THEN /\ out' = SetupResult(op, "INVALID_MNEMONIC", mnemonic, password)
          /\ UNCHANGED <<seed, config>>
     ELSE IF config # {}
          THEN /\ out' = SetupResult(op, "WALLET_ALREADY_INITIALIZED", mnemonic, password)
               /\ UNCHANGED <<seed, config>>
          ELSE /\ config' = {ConfigDoc(mnemonic, password)}
               /\ seed' = mnemonicToSeed(mnemonic, password)
               /\ out' = SetupResult(op, "ok", mnemonic, password)
  /\ UNCHANGED <<store, server, built, sends, tasks, pendingPuts, pendingTx, now>>

Restore(mnemonic, password) == restore("restore", mnemonic, password)

\* Database.create lines 130-133: restore with a generated mnemonic
Create(password) == \E mnemonic \in ValidMnemonics : restore("create", mnemonic, password)

\* Unlock with the seed set before the password is checked: the variant
\* C22_InvalidPasswordKeepsSeed has to tell from Unlock
UnlockSetsSeedFirst(password) ==
  /\ IF config = {}
     THEN /\ out' = SetupResult("unlock", "MUST_EXIST", "", password)
          /\ UNCHANGED seed
     ELSE \E c \in config :
            LET s == mnemonicToSeed(c.mnemonic, password) IN
            /\ seed' = s
            /\ out' = SetupResult("unlock",
                         IF toPublicKey(seedToBitcoinAddressGenerator(s)) # c.bitcoinAddressGenerator
                         THEN "INVALID_PASSWORD" ELSE "ok", c.mnemonic, password)
  /\ UNCHANGED <<store, server, built, sends, tasks, pendingPuts, pendingTx, config, now>>

\* unlock(password) lines 135-146
Unlock(password) ==
  /\ IF config = {}
     THEN /\ out' = SetupResult("unlock", "MUST_EXIST", "", password)
          /\ UNCHANGED seed
     ELSE \E c \in config :
            LET s == mnemonicToSeed(c.mnemonic, password) IN
            IF toPublicKey(seedToBitcoinAddressGenerator(s)) # c.bitcoinAddressGenerator
            THEN /\ out' = SetupResult("unlock", "INVALID_PASSWORD", c.mnemonic, password)
                 /\ UNCHANGED seed
            ELSE /\ seed' = s
                 /\ out' = SetupResult("unlock", "ok", c.mnemonic, password)
  /\ UNCHANGED <<store, server, built, sends, tasks, pendingPuts, pendingTx, config, now>>

\* the page is loaded again and a new Database object is constructed (lines
\* 38-93) on the same store: its seed is not set, and the calls and detached
\* work of the object before are gone
Reopen ==
  /\ seed' = Locked
  /\ tasks' = [t \in Tasks |-> Idle]
  /\ pendingPuts' = {}
  /\ pendingTx' = {}
  /\ out' = NoOut
  /\ UNCHANGED <<store, server, built, sends, config, now>>

\* the tables reset() clears, in the order of the schema (lines 42-54): config is
\* skipped
ResetTables ==
  <<"bitcoinAddresses", "bounties", "coins", "claims", "directAddresses", "hookins",
    "hookouts", "transfers">>

\* reset() lines 257-266: the call begins
Reset(t) ==
  /\ FirstFree(t)
  /\ tasks' = [tasks EXCEPT ![t] = [op |-> "reset", pc |-> "clear", todo |-> ResetTables]]
  /\ out' = NoOut
  /\ UNCHANGED <<store, server, built, sends, pendingPuts, pendingTx, wallet>>

Cleared(table, name, todo) == IF Head(todo) = name THEN {} ELSE table

\* reset() line 264: await table.clear() on the next table
ResetNext(t) ==
  /\ tasks[t].op = "reset"
  /\ LET todo == tasks[t].todo IN
       /\ bitcoinAddresses' = Cleared(bitcoinAddresses, "bitcoinAddresses", todo)
       /\ bounties' = Cleared(bounties, "bounties", todo)
       /\ coins' = Cleared(coins, "coins", todo)
       /\ claims' = Cleared(claims, "claims", todo)
       /\ directAddresses' = Cleared(directAddresses, "directAddresses", todo)
       /\ hookins' = Cleared(hookins, "hookins", todo)
       /\ hookouts' = Cleared(hookouts, "hookouts", todo)
       /\ transfers' = Cleared(transfers, "transfers", todo)
       /\ IF Tail(todo) = <<>>
          THEN /\ tasks' = [tasks EXCEPT ![t] = Idle]
               /\ out' = Result("reset", "ok", <<>>)
          ELSE /\ tasks' = [tasks EXCEPT ![t] = [tasks[t] EXCEPT !.todo = Tail(todo)]]
               /\ out' = NoOut
  /\ UNCHANGED <<server, built, sends, pendingPuts, pendingTx, wallet>>

\* what a derivation hands back: the key, or the error it threw; arg is what it
\* was called with
Derived(op, res, key, input) == [op |-> op, res |-> res, hash |-> key, arg |-> input]

\* a derivation without its check of this.seed: the variant C21_LockedDerivationFails
\* has to tell from Derive
DeriveUnchecked(op, key, input) ==
  /\ out' = Derived(op, "ok", key, input)
  /\ UNCHANGED <<store, server, built, sends, tasks, pendingPuts, pendingTx, wallet>>

\* the check every derivation begins with (lines 722-724, 744-746, 754-756,
\* 764-766), then the key
Derive(op, key, input) ==
  /\ out' = IF seed = Locked
            THEN Derived(op, "wallet is locked", <<>>, input)
            ELSE Derived(op, "ok", key, input)
  /\ UNCHANGED <<store, server, built, sends, tasks, pendingPuts, pendingTx, wallet>>

\* the derivation indices, and the claim hashes and blinding nonces, the
\* derivations are called with: those of the stored coins among them
DeriveIndices == {0, 1}

DeriveInputs == {<<c.claimHash, c.blindingNonce>> : c \in coins} \cup {<<BountyHash(1, ForeignKey, 1), 1>>}

\* deriveBitcoinAddress lines 721-737
DeriveBitcoinAddress(i) == Derive("deriveBitcoinAddress", deriveBitcoinAddressIndex(i).claimant, <<i>>)

\* deriveClaimant lines 743-751
DeriveClaimant(i, isInternal) ==
  Derive("deriveClaimant", deriveClaimantIndex(i, isInternal), <<i, isInternal>>)

\* deriveOwner lines 753-761
DeriveOwner(in) == Derive("deriveOwner", deriveOwner(in[1], in[2]), in)

\* deriveBlindingSecret lines 763-770
DeriveBlindingSecret(in) == Derive("deriveBlindingSecret", deriveBlindingSecret(in[1], in[2]), in)

\* a store nothing was done on yet, and a Database object constructed on it
InitWallet ==
  /\ bitcoinAddresses = {}
  /\ directAddresses = {}
  /\ bounties = {}
  /\ hookins = {}
  /\ hookouts = {}
  /\ claims = {}
  /\ coins = {}
  /\ transfers = {}
  /\ srvTransfers = {}
  /\ srvClaims = {}
  /\ built = {}
  /\ sends = 0
  /\ tasks = [t \in Tasks |-> Idle]
  /\ pendingPuts = {}
  /\ pendingTx = {}
  /\ out = NoOut
  /\ seed = Locked
  /\ config = {}
  /\ now = 0

\* setup, unlock, reset and the derivations
NextWallet ==
  \/ \E mnemonic \in Mnemonics, password \in Passwords : Restore(mnemonic, password)
  \/ \E password \in Passwords : Create(password)
  \/ \E password \in Passwords : Unlock(password)
  \/ Reopen
  \/ \E t \in Tasks : Reset(t)
  \/ \E t \in Tasks : ResetNext(t)
  \/ \E i \in DeriveIndices : DeriveBitcoinAddress(i)
  \/ \E i \in DeriveIndices, isInternal \in BOOLEAN : DeriveClaimant(i, isInternal)
  \/ \E in \in DeriveInputs : DeriveOwner(in)
  \/ \E in \in DeriveInputs : DeriveBlindingSecret(in)
  \/ NewBitcoinAddress

SpecWallet == InitWallet /\ [][NextWallet]_vars

\* the restored wallet, unlocked or not: hookins are stored and claimed, the
\* page is reloaded, the wallet unlocked, and the owner keys and blinding
\* secrets of the stored coins are derived again
InitOwners ==
  /\ bitcoinAddresses = {}
  /\ directAddresses = {}
  /\ bounties = {}
  /\ hookins = {}
  /\ hookouts = {}
  /\ claims = {}
  /\ coins = {}
  /\ transfers = {}
  /\ srvTransfers = {}
  /\ srvClaims = {}
  /\ built = {}
  /\ sends = 0
  /\ tasks = [t \in Tasks |-> Idle]
  /\ pendingPuts = {}
  /\ pendingTx = {}
  /\ out = NoOut
  /\ seed = RestoredSeed
  /\ config = RestoredConfig
  /\ now = 0

NextOwners ==
  \/ \E password \in Passwords : Unlock(password)
  \/ Reopen
  \/ \E in \in DeriveInputs : DeriveOwner(in)
  \/ \E in \in DeriveInputs : DeriveBlindingSecret(in)
  \/ NewBitcoinAddress
  \/ \E t \in Tasks, a \in bitcoinAddresses, rs \in Receives : AddHookins(t, a, rs)
  \/ \E t \in Tasks : AddHookinsNext(t)
  \/ \E t \in Tasks : ClaimAnswer(t)
  \/ \E r \in pendingTx : ClaimTxRun(r)

SpecOwners == InitOwners /\ [][NextOwners]_vars

\* sends of a funded wallet that is reopened, and so locked, and unlocked again
NextLocked ==
  \/ Reopen
  \/ \E password \in Passwords : Unlock(password)
  \/ \E amount \in Amounts : SendDirect(1, amount)
  \/ \E amount \in Amounts, feeRate \in FeeRates : SendToBitcoinAddress(1, amount, feeRate)
  \/ \E t \in Tasks : ServerSubmit(t)
  \/ \E t \in Tasks : FinalizeResume(t)
  \/ \E t \in Tasks : FinalizeAckPut(t)
  \/ \E doc \in CallerDocs : DiscardTransfer(doc)
  \/ \E p \in pendingPuts : PutLands(p)
  \/ \E t \in Tasks : SelfClaimNext(t)
  \/ \E t \in Tasks : ClaimAnswer(t)
  \/ \E r \in pendingTx : ClaimTxRun(r)

SpecLocked == InitTransfers /\ [][NextLocked]_vars

\* sends of a funded wallet to direct addresses of its own and to others, with
\* the self-claims that follow
NextSelfPay ==
  \/ NewDirectAddress
  \/ \E amount \in Amounts : SendDirect(1, amount)
  \/ \E t \in Tasks : ServerSubmit(t)
  \/ \E t \in Tasks : FinalizeResume(t)
  \/ \E t \in Tasks : FinalizeAckPut(t)
  \/ \E t \in Tasks : SelfClaimNext(t)
  \/ \E t \in Tasks : ClaimAnswer(t)
  \/ \E r \in pendingTx : ClaimTxRun(r)

SpecSelfPay == InitTransfers /\ [][NextSelfPay]_vars

\* ------------------------------------------------- the coin selector
\* the coins the selector is tried on: one coin of every magnitude, and a second
\* coin of magnitude 2
SelectorCoin(m, n) ==
  [hash |-> CoinHash(<<"selector">>, n, m), claimHash |-> <<"selector">>,
   blindingNonce |-> n, magnitude |-> m]

SelectorCoins == {SelectorCoin(m, 1) : m \in 0..MaxSelectorMagnitude} \cup {SelectorCoin(2, 2)}

Targets == 1..MaxTarget \cup {100}

InitSelect ==
  /\ coins \in SUBSET SelectorCoins
  /\ bitcoinAddresses = {}
  /\ directAddresses = {}
  /\ bounties = {}
  /\ hookins = {}
  /\ hookouts = {}
  /\ claims = {}
  /\ transfers = {}
  /\ srvTransfers = {}
  /\ srvClaims = {}
  /\ built = {}
  /\ sends = 0
  /\ tasks = [t \in Tasks |-> Idle]
  /\ pendingPuts = {}
  /\ pendingTx = {}
  /\ out = NoOut
  /\ seed = RestoredSeed
  /\ config = RestoredConfig
  /\ now = 0

\* what findAtLeast hands back: `undefined`, or one of its selections
Selected(target, res, sel) == [op |-> "findAtLeast", res |-> res, hash |-> <<target>>, arg |-> sel]

\* coinselection.findAtLeast(unspent, target) on the coins of the store
FindAtLeast(target) ==
  /\ LET sels == findAtLeast(listUnspent, target) IN
       IF sels = {}
       THEN out' = Selected(target, "undefined", [found |-> {}, excess |-> 0])
       ELSE \E sel \in sels : out' = Selected(target, "found", sel)
  /\ UNCHANGED <<store, server, built, sends, tasks, pendingPuts, pendingTx>>
  /\ UNCHANGED wallet

NextSelect == \E target \in Targets : FindAtLeast(target)

SpecSelect == InitSelect /\ [][NextSelect]_vars

\* ---------------------------------------------------------- properties
UnspentHashes == {c.hash : c \in listUnspent}

Terminal == {"ACKNOWLEDGED", "CONFLICTED"}

\* the step lets the unawaited put p of finalizeTransfer's INPUT_SPENT branch land
Lands(p) ==
  /\ p \in pendingPuts
  /\ p.by = "finalizeTransfer"
  /\ pendingPuts' = pendingPuts \ {p}
  /\ transfers' = Put(transfers, p.row)

TransferOps == {"sendDirect", "sendToBitcoinAddress", "finalizeTransfer"}

ClaimOps == {"claimBounty", "claimHookin", "addHookins", "selfClaim"}

\* C1: in the store a transfer's status only moves PENDING -> ACKNOWLEDGED or
\* PENDING -> CONFLICTED: a row that is ACKNOWLEDGED or CONFLICTED stays in the
\* table with that status at every step, whatever call takes it
C1_StatusIsTerminal ==
  [][\A r \in transfers : r.status.kind \in Terminal =>
       \E q \in transfers' : q.hash = r.hash /\ q.status.kind = r.status.kind]_vars

\* C2: of a transfer this wallet built, the inputs are absent from listUnspent
\* while it is PENDING, are in listUnspent while it is CONFLICTED and no other
\* transfer that is not CONFLICTED refers to them, and once it is ACKNOWLEDGED are
\* never again in listUnspent
C2_UnspentExclusion ==
  /\ [](\A r \in transfers : r.hash \in built =>
          /\ r.status.kind = "PENDING" => r.coinHashes \cap UnspentHashes = {}
          /\ r.status.kind = "CONFLICTED" =>
               \A c \in r.coinHashes :
                 (\A q \in transfers : q.status.kind # "CONFLICTED" => c \notin q.coinHashes)
                   => c \in UnspentHashes)
  /\ [][\A r \in transfers : r.hash \in built /\ r.status.kind = "ACKNOWLEDGED" =>
          r.coinHashes \cap UnspentHashes' = {}]_vars

\* C3: no coin is an input of two different transfers built by this wallet that
\* are both stored with a status other than CONFLICTED
C3_NoDoubleUse ==
  \A r \in transfers, q \in transfers :
    (/\ r.hash # q.hash
     /\ r.hash \in built /\ q.hash \in built
     /\ r.status.kind # "CONFLICTED" /\ q.status.kind # "CONFLICTED")
      => r.coinHashes \cap q.coinHashes = {}

\* C4: once the put of finalizeTransfer's INPUT_SPENT branch has landed, the local
\* transfer is stored as CONFLICTED, every transfer lookup-transfer returned for
\* one of its inputs is stored as ACKNOWLEDGED, and the table holds one row per
\* transfer hash
C4_ConflictReconciliation ==
  [][\A p \in pendingPuts : Lands(p) =>
       /\ \E q \in transfers' : q.hash = p.row.hash /\ q.status.kind = "CONFLICTED"
       /\ \A U \in p.fetched :
            \E q \in transfers' : q.hash = U /\ q.status.kind = "ACKNOWLEDGED"
       /\ \A q1 \in transfers', q2 \in transfers' : q1.hash = q2.hash => q1 = q2]_vars

\* C5: once the put of finalizeTransfer's INPUT_SPENT branch has landed, no input
\* of the rejected transfer for which lookup-coin named a consuming transfer is
\* in listUnspent
C5_UnspentAgreesWithServer ==
  [][\A p \in pendingPuts : Lands(p) => p.named \cap UnspentHashes' = {}]_vars

\* C6: when submit-transfer failed with an error other than INPUT_SPENT, the call
\* throws that error, no row of the transfers table is written or about to be
\* written, so the transfer stays as it was stored; and when a finalizeTransfer
\* called on a stored transfer returns, the transfer is stored as ACKNOWLEDGED
C6_OtherErrorKeepsPending ==
  [][\A t \in Tasks :
       /\ (/\ tasks[t].op \in TransferOps
           /\ tasks[t].pc = "answered"
           /\ tasks[t].resp.kind = "OTHER"
           /\ tasks'[t] # tasks[t])
            => /\ tasks'[t] = Idle
               /\ out' = Result(tasks[t].op, "OTHER", tasks[t].doc.hash)
               /\ transfers' = transfers
               /\ pendingPuts' = pendingPuts
       /\ (/\ tasks[t].op = "finalizeTransfer"
           /\ out' = Result("finalizeTransfer", "ok", tasks[t].doc.hash))
            => \E q \in transfers' :
                 q.hash = tasks[t].doc.hash /\ q.status.kind = "ACKNOWLEDGED"]_vars

C6_Witness ==
  /\ out.op \in TransferOps
  /\ out.res = "OTHER"
  /\ \E r \in transfers : r.hash = out.hash /\ r.status.kind = "PENDING"
  /\ pendingPuts = {}

\* C7: when the call that the server answered with an acknowledgement returns,
\* the transfer is in the table as ACKNOWLEDGED with that acknowledgement
C7_AcknowledgedOnReturn ==
  [][\A t \in Tasks :
       (/\ tasks[t].op \in TransferOps
        /\ tasks[t].resp.kind = "ACK"
        /\ tasks'[t] = Idle)
         => /\ out' = Result(tasks[t].op, "ok", tasks[t].doc.hash)
            /\ \E q \in transfers' :
                 /\ q.hash = tasks[t].doc.hash
                 /\ q.status = Acknowledged(tasks[t].resp.acknowledgement)]_vars

C7_Witness ==
  /\ out.op \in {"sendDirect", "sendToBitcoinAddress"}
  /\ out.res = "ok"
  /\ \E r \in transfers : r.hash = out.hash /\ r.status = Acknowledged(Ack(out.hash))

\* C8: finalizeTransfer and discardTransfer entered with a document whose status
\* is not PENDING throw, no request leaves for the server and no table changes,
\* at that step or by a put left in flight
C8_NonPendingRejected ==
  [][(out'.op \in {"finalizeTransfer", "discardTransfer"} /\ out'.arg \in Terminal)
       => /\ out'.res = "NOT_PENDING"
          /\ UNCHANGED <<store, server, tasks, pendingPuts, pendingTx>>]_vars

C8_Witness ==
  /\ out.op = "finalizeTransfer"
  /\ out.arg \in Terminal
  /\ out.res = "NOT_PENDING"

\* C9: a call that starts after a call on the same hash handed a verified claim
\* response to processClaimResponse and returned makes no claim request
C9_SecondClaimIsNoOp ==
  [][\A t \in Tasks :
       (/\ tasks'[t].op \in ClaimOps
        /\ tasks'[t].pc = "makeClaim"
        /\ tasks'[t] # tasks[t])
         => ~ \E r \in pendingTx \cup claims : r.hash = tasks'[t].cl.hash /\ r.valid]_vars

ClaimHashes ==
  {h.hash : h \in hookins} \cup {b.hash : b \in bounties}
    \cup {r.hash : r \in claims} \cup {c.claimHash : c \in coins}

C12_InvalidResponseSurfaced ==
  /\ [](\A r \in srvClaims : ~ r.valid => (r \notin claims /\ CoinsOf(r) \cap coins = {}))
  /\ [][\A r \in pendingTx' \ pendingTx :
          ~ r.valid => out'.res \notin {"ok", ""}]_vars

\* the derivation indices of the stored bitcoin addresses, and of the addresses
\* the stored hookins were received on
StoredIndices == {a.index : a \in bitcoinAddresses}

HookinIndices == {a.index : a \in {b \in bitcoinAddresses : \E h \in hookins : h.bitcoinAddress = b.address}}

\* syncBitcoinAddresses of the call in slot t has returned, having started from an
\* empty bitcoinAddresses table with gap limit 3 and receipts at indices 0 and 4
ExampleScanOver(t) ==
  /\ ScanOver(t)
  /\ tasks[t].firstIndex = 0
  /\ tasks[t].gapLimit = 3
  /\ tasks[t].used = {0, 4}

\* C13 as stated: in the example the scan leaves the rows of indices 0..7 and the
\* hookins of indices 0 and 4
C13_GapLimitExample ==
  \A t \in Tasks :
    ExampleScanOver(t) => (StoredIndices = 0..7 /\ HookinIndices = {0, 4})

\* C13 (amended): in the example the scan probes the indices 0, 1, 2 and 3 and
\* stops; it leaves the row of index 0 and the hookin of index 0 only
C13_GapLimitExampleAsCoded ==
  \A t \in Tasks :
    ExampleScanOver(t) =>
      /\ tasks[t].probes = <<<<0, TRUE>>, <<1, FALSE>>, <<2, FALSE>>, <<3, FALSE>>>>
      /\ StoredIndices = {0}
      /\ HookinIndices = {0}

C13_Witness == \E t \in Tasks : ExampleScanOver(t) /\ hookins # {}

\* the number of empty probes at the end of a sequence of probes
RECURSIVE TrailingEmpty(_)
TrailingEmpty(probes) ==
  IF probes = <<>> \/ probes[Len(probes)][2] THEN 0
  ELSE 1 + TrailingEmpty(SubSeq(probes, 1, Len(probes) - 1))

\* probe k of the call in slot t came after gapLimit empty probes in a row
AfterGap(t, k) ==
  /\ k > tasks[t].gapLimit
  /\ \A j \in (k - tasks[t].gapLimit)..(k - 1) : ~ tasks[t].probes[j][2]

\* the scan of the call in slot t is under way
Scanning(t) == tasks[t].op = "sync" /\ ~ tasks[t].sweep

\* C14 as stated: between probes the gap counter is the number of empty probes
\* since the last hit, no probe at all comes after gapLimit empty probes in a
\* row, the scan is over with the counter at gapLimit, and every scan ends
C14_StopsAtGapLimit ==
  /\ [](\A t \in Tasks : Scanning(t) =>
          /\ tasks[t].pc = "scan" => tasks[t].gapCount = TrailingEmpty(tasks[t].probes)
          /\ \A k \in 1..Len(tasks[t].probes) : ~ AfterGap(t, k)
          /\ ScanOver(t) => tasks[t].gapCount = tasks[t].gapLimit)
  /\ \A t \in Tasks : Scanning(t) ~> (ScanOver(t) \/ tasks[t].op = "idle")

\* C14 (amended): between probes the gap counter is the number of empty probes
\* since the last hit; no index after the stored ones is probed after gapLimit
\* empty probes in a row, while every stored address is probed; the scan is over
\* with the counter at gapLimit or above, and at gapLimit when an index after the
\* stored ones was probed; every scan ends
C14_GapCounterOnNewIndices ==
  /\ [](\A t \in Tasks : Scanning(t) =>
          LET probes == tasks[t].probes IN
          /\ tasks[t].pc = "scan" => tasks[t].gapCount = TrailingEmpty(probes)
          /\ \A k \in 1..Len(probes) :
               probes[k][1] >= tasks[t].firstIndex => ~ AfterGap(t, k)
          /\ ScanOver(t) =>
               /\ tasks[t].gapCount >= tasks[t].gapLimit
               /\ 0..(tasks[t].firstIndex - 1) \subseteq {probes[k][1] : k \in 1..Len(probes)}
               /\ (probes # <<>> /\ probes[Len(probes)][1] >= tasks[t].firstIndex)
                    => tasks[t].gapCount = tasks[t].gapLimit)
  /\ \A t \in Tasks : Scanning(t) ~> (ScanOver(t) \/ tasks[t].op = "idle")

C14_Witness ==
  \E t \in Tasks :
    /\ ScanOver(t)
    /\ tasks[t].firstIndex > 0
    /\ \E k \in 1..Len(tasks[t].probes) :
         tasks[t].probes[k][2] /\ tasks[t].probes[k][1] >= tasks[t].firstIndex
    /\ tasks[t].gapCount = tasks[t].gapLimit

\* C15: when sync() has returned normally every stored hookin has a Claim record
C15_SyncClaimsEveryHookin ==
  out = Result("sync", "ok", <<>>) => \A h \in hookins : IsClaimed(h.hash)

\* C16: sync() never ends with the failure of a claim: whatever happens to the
\* claim of one hookin, the call goes on and returns normally
C16_ClaimFailureNotSurfaced == out.op = "sync" => out.res = "ok"

SendOps == {"sendDirect", "sendToBitcoinAddress"}

\* what a send of the given kind may need: amount + fee
Needs(op) == {amount + Fee(op, feeRate) : amount \in Amounts, feeRate \in FeeRates}

\* C19: a send returns NOT_ENOUGH_FUNDS, and does not go on, exactly when the
\* unspent coins are below amount + fee; the step that returns it changes no
\* table, starts no submission and reaches the server with nothing
C19_NotEnoughFundsIsAValue ==
  [][\A op \in SendOps :
       /\ (out'.op = op /\ out'.res = "NOT_ENOUGH_FUNDS") =>
            /\ \A need \in Needs(op) : getBalance < need
            /\ UNCHANGED <<store, server, built, tasks, pendingPuts>>
       /\ (out'.op = op /\ built' # built) =>
            \A need \in Needs(op) : getBalance >= need]_vars

C19_Witness ==
  /\ out.op \in SendOps
  /\ out.res = "NOT_ENOUGH_FUNDS"
  /\ listUnspent # {}

\* C20: the step that builds a transfer takes inputs worth amount + fee + change:
\* it adds the bounty or hookout of the amount and, when and only when the
\* selection exceeds amount + fee, one internal direct address that was not
\* stored before and one bounty of exactly the excess to it
C20_ValueConserved ==
  [][\A op \in SendOps : (out'.op = op /\ built' # built) =>
       \A doc \in {d \in transfers' : d.hash \in built' \ built} :
         LET inputs == {c \in coins : c.hash \in doc.coinHashes}
             newBounties == bounties' \ bounties
             newHookouts == hookouts' \ hookouts
             newAddresses == directAddresses' \ directAddresses
             change == {b \in newBounties : \E a \in newAddresses : a.claimant = b.claimant}
         IN \E amount \in Amounts, feeRate \in FeeRates :
              LET excess == SumValues(inputs) - amount - Fee(op, feeRate) IN
              /\ excess >= 0
              /\ doc.bountyHashes = {b.hash : b \in newBounties}
              /\ doc.hookoutHash = {h.hash : h \in newHookouts}
              /\ IF op = "sendDirect"
                 THEN newHookouts = {} /\ {b.amount : b \in newBounties \ change} = {amount}
                 ELSE newBounties = change /\ {h.amount : h \in newHookouts} = {amount}
              /\ (excess > 0) <=> (change # {})
              /\ (excess > 0) <=> (newAddresses # {})
              /\ Cardinality(change) <= 1 /\ Cardinality(newAddresses) <= 1
              /\ \A b \in change : b.amount = excess
              /\ \A a \in newAddresses :
                   a.isInternal /\ ~ \E old \in directAddresses : old.index = a.index]_vars

C20_Witness ==
  /\ out.op \in SendOps
  /\ out.res = "entered"
  /\ \E d \in transfers : \E b \in bounties : \E a \in directAddresses :
       /\ d.hash = out.hash
       /\ b.hash \in d.bountyHashes
       /\ a.isInternal
       /\ a.claimant = b.claimant

\* C17: what the selector returns is a subset of the coins it was given whose
\* values sum to at least the target, with excess = sum - target; it returns
\* `undefined` exactly when all the coins together are below the target
C17_SelectorSound ==
  out.op = "findAtLeast" =>
    LET target == out.hash[1]
        sel == out.arg
    IN /\ out.res = "found" =>
            /\ sel.found \subseteq listUnspent
            /\ SumValues(sel.found) >= target
            /\ sel.excess = SumValues(sel.found) - target
       /\ out.res = "undefined" <=> SumValues(listUnspent) < target

C17_Witness ==
  /\ out.op = "findAtLeast"
  /\ out.res = "found"
  /\ out.arg.excess > 0
  /\ out.arg.found # listUnspent

\* C18: no subset of the given coins that reaches the target has a smaller excess
\* than the one returned; coins {1,2,4,8} and target 5 give {4,1} and excess 0,
\* coins {4,4} and target 6 give both and excess 2, and coins worth 50 and target
\* 100 give `undefined`
C18_SelectorMinimal ==
  out.op = "findAtLeast" =>
    LET target == out.hash[1]
        sel == out.arg
        values == {<<c.magnitude, c.blindingNonce>> : c \in listUnspent}
        got == {<<c.magnitude, c.blindingNonce>> : c \in sel.found}
    IN /\ out.res = "found" =>
            \A S \in SUBSET listUnspent :
              SumValues(S) >= target => sel.excess <= SumValues(S) - target
       /\ (values = {<<0, 1>>, <<1, 1>>, <<2, 1>>, <<3, 1>>} /\ target = 5) =>
            (out.res = "found" /\ got = {<<2, 1>>, <<0, 1>>} /\ sel.excess = 0)
       /\ (values = {<<2, 1>>, <<2, 2>>} /\ target = 6) =>
            (out.res = "found" /\ got = values /\ sel.excess = 2)
       /\ (values = {<<5, 1>>, <<4, 1>>, <<1, 1>>} /\ target = 100) => out.res = "undefined"

DerivationOps == {"deriveBitcoinAddress", "deriveClaimant", "deriveOwner", "deriveBlindingSecret"}

\* C21: a derivation called while no seed is loaded ends with the wallet-locked
\* error and hands back no key; called while a seed is loaded it hands back a key
C21_LockedDerivationFails ==
  out.op \in DerivationOps =>
    IF seed = Locked
    THEN out.res = "wallet is locked" /\ out.hash = <<>>
    ELSE out.res = "ok" /\ out.hash # <<>>

C21_Witness ==
  /\ out.op \in DerivationOps
  /\ out.res = "wallet is locked"
  /\ config # {}

\* the password derives the bitcoin-address generator whose public key the config
\* row c records
Matches(c, password) ==
  toPublicKey(seedToBitcoinAddressGenerator(mnemonicToSeed(c.mnemonic, password)))
    = c.bitcoinAddressGenerator

\* C22: unlock with a password that does not match the config row returns
\* INVALID_PASSWORD and leaves the seed as it was; unlock with the matching
\* password loads the seed of the mnemonic and that password
C22_InvalidPasswordKeepsSeed ==
  [][\A password \in Passwords, c \in config :
       (out'.op = "unlock" /\ out'.hash[2] = password) =>
         IF Matches(c, password)
         THEN out'.res = "ok" /\ seed' = mnemonicToSeed(c.mnemonic, password)
         ELSE out'.res = "INVALID_PASSWORD" /\ seed' = seed]_vars

C22_Witness ==
  /\ out.op = "unlock"
  /\ out.res = "INVALID_PASSWORD"
  /\ seed = Locked

\* C23: the config table never holds more than one row and a row it holds is
\* never changed or removed, by reset or anything else; restore with an invalid
\* mnemonic returns INVALID_MNEMONIC, restore with a valid mnemonic or create on
\* an initialized store returns WALLET_ALREADY_INITIALIZED, and a restore that
\* succeeds leaves the row of its mnemonic and password
C23_ConfigSingletonImmutable ==
  /\ [](Cardinality(config) <= 1)
  /\ [][config # {} => config' = config]_vars
  /\ [][out'.op \in {"restore", "create"} =>
         LET mnemonic == out'.hash[1]
             password == out'.hash[2]
         IN IF mnemonic \notin ValidMnemonics
            THEN out'.res = "INVALID_MNEMONIC" /\ config' = config
            ELSE IF config # {}
                 THEN out'.res = "WALLET_ALREADY_INITIALIZED" /\ config' = config
                 ELSE out'.res = "ok" /\ config' = {ConfigDoc(mnemonic, password)}]_vars

C23_Witness ==
  /\ out.op \in {"restore", "create"}
  /\ out.res = "WALLET_ALREADY_INITIALIZED"
  /\ bitcoinAddresses = {}
  /\ seed = Locked

\* C25: deriveOwner and deriveBlindingSecret hand back the hash of their label,
\* the seed of the config row and their input, whatever the store holds and
\* whenever they are called; the owner key derived from the claimHash and
\* blindingNonce of a stored coin is the key whose public key is the coin's owner
C25_OwnerRederivable ==
  (out.op \in {"deriveOwner", "deriveBlindingSecret"} /\ out.res = "ok") =>
    /\ out.hash = <<IF out.op = "deriveOwner" THEN "HIChain.deriveOwner"
                    ELSE "HIChain.deriveBlindingSecret",
                    RestoredSeed, out.arg[1], out.arg[2]>>
    /\ out.op = "deriveOwner" =>
         \A c \in coins :
           <<c.claimHash, c.blindingNonce>> = out.arg => c.owner = toPublicKey(out.hash)

C25_Witness ==
  /\ out.op = "deriveOwner"
  /\ out.res = "ok"
  /\ \E c \in coins : <<c.claimHash, c.blindingNonce>> = out.arg
  /\ Cardinality(coins) > 1

\* C24: the detached loop that claims the bounties of an acknowledged transfer
\* does not exist before the put of the ACKNOWLEDGED row has landed: no call of
\* finalizeTransfer still awaits that put while the loop over its bounties runs
C24_SelfClaimAfterAckWrite ==
  \A s \in Tasks, t \in Tasks :
    (tasks[s].op = "selfClaim" /\ tasks[t].op \in TransferOps /\ tasks[t].pc = "ackput") =>
      tasks[s].cl.hash \notin tasks[t].doc.bountyHashes

\* the stored row of the transfer the send in slot t built
RowOf(t) == {r \in transfers : r.hash = tasks[t].doc.hash}

\* C30: while a sendDirect or sendToBitcoinAddress is between its build and the
\* server's answer, the store holds the row of its transfer with its bounties and
\* its hookout; the build leaves the row PENDING, only a discardTransfer of the
\* caller changes that before the answer, and while the row is PENDING none of
\* its inputs is in listUnspent
C30_PendingBeforeSubmit ==
  /\ [](\A t \in Tasks :
         (tasks[t].op \in SendOps /\ tasks[t].pc = "submit") =>
           /\ RowOf(t) # {}
           /\ tasks[t].doc.bountyHashes \subseteq {b.hash : b \in bounties}
           /\ tasks[t].doc.hookoutHash \subseteq {h.hash : h \in hookouts}
           /\ \A r \in RowOf(t) :
                r.status.kind = "PENDING" => r.coinHashes \cap UnspentHashes = {})
  /\ [][\A t \in Tasks :
          (tasks'[t].op \in SendOps /\ tasks'[t].pc = "submit") =>
            IF tasks[t] # tasks'[t]
            THEN \A r \in transfers' : r.hash = tasks'[t].doc.hash => r.status.kind = "PENDING"
            ELSE \A r \in RowOf(t) :
                   r.status.kind = "PENDING" =>
                     \/ r \in transfers'
                     \/ \E p \in pendingPuts \ pendingPuts' :
                          p.by = "discardTransfer" /\ p.row.hash = r.hash]_vars

C30_Witness ==
  \E t \in Tasks :
    /\ tasks[t].op \in SendOps
    /\ tasks[t].pc = "submit"
    /\ tasks[t].doc.hookoutHash # {}
    /\ \E r \in RowOf(t) : r.status.kind = "PENDING"
    /\ getBalance = 0

\* C26: a receipt has one Hookin row, and no step changes or removes a Hookin
\* row the store holds, the scan of its address with the same receipts included
C26_RescanChangesNoRow ==
  /\ [](\A g \in hookins, h \in hookins :
         (g.bitcoinAddress = h.bitcoinAddress /\ g.txid = h.txid /\ g.vout = h.vout) => g = h)
  /\ [][\A h \in hookins : h \in hookins']_vars

\* C27: checkDirectAddress does not end with the error of adding a bounty the
\* bounties table holds already
C27_CheckAgainCompletes == out.op = "checkDirectAddress" => out.res # "ConstraintError"

\* C29: the claimant of a stored direct address is derived from the internal
\* generator when isInternal is true and from the direct generator when it is false
C29_ClaimantGenerator ==
  \A a \in directAddresses :
    a.claimant = <<IF a.isInternal THEN "internalAddressGenerator"
                  ELSE "directAddressGenerator", a.index>>

C35_LockedSendLeavesNoTrace ==
  [][(out'.op \in SendOps /\ (seed = Locked \/ out'.res = "wallet is locked")) =>
       /\ seed = Locked
       /\ out'.res \in {"wallet is locked", "NOT_ENOUGH_FUNDS"}
       /\ out'.res = "wallet is locked" <=>
            \E op \in SendOps : out'.op = op /\
              \E n \in Needs(op) : findAtLeast(listUnspent, n) # {}
       /\ UNCHANGED <<store, server, tasks>>
       /\ UnspentHashes' = UnspentHashes]_vars

C35_Witness ==
  /\ out.op \in SendOps
  /\ out.res = "wallet is locked"
  /\ seed = Locked
  /\ transfers = {}
  /\ listUnspent # {}

\* C36: when discardTransfer of a PENDING transfer has returned, the stored row
\* of the transfer is CONFLICTED and its inputs no other stored transfer refers
\* to are in listUnspent
C36_DiscardedOnReturn ==
  (out.op = "discardTransfer" /\ out.res = "ok") =>
    \A r \in transfers :
      r.hash = out.hash =>
        /\ r.status.kind = "CONFLICTED"
        /\ \A c \in r.coinHashes :
             (\A q \in transfers : q.status.kind # "CONFLICTED" => c \notin q.coinHashes)
               => c \in UnspentHashes

\* the indices at or after the first new one at which the scan of the call in
\* slot t found a receipt
HitIndices(t) ==
  {tasks[t].probes[k][1] : k \in {j \in 1..Len(tasks[t].probes) :
     tasks[t].probes[j][2] /\ tasks[t].probes[j][1] >= tasks[t].firstIndex}}

\* C32: every row the scan of a sync() has added has an index at or below an
\* index at which that scan found a receipt; once the scan is over no index
\* above its last hit is stored, and none at all from the first new index on
\* when it found no receipt there
C32_SkippedOnlyBelowHit ==
  \A t \in Tasks :
    tasks[t].op = "sync" =>
      \A i \in StoredIndices :
        i >= tasks[t].firstIndex => \E j \in HitIndices(t) : i <= j

C32_Witness ==
  \E t \in Tasks :
    /\ ScanOver(t)
    /\ \E j \in HitIndices(t) : j > tasks[t].firstIndex /\ j - 1 \in StoredIndices
    /\ TrailingEmpty(tasks[t].probes) = tasks[t].gapLimit
    /\ \A k \in 1..Len(tasks[t].probes) :
         ~ tasks[t].probes[k][2] => (tasks[t].probes[k][1] \in StoredIndices
                                       <=> \E j \in HitIndices(t) : tasks[t].probes[k][1] < j)

\* C33: no two stored bitcoin addresses have the same index, and whenever no
\* scan is in the middle of adding the addresses it skipped, the stored indices
\* are 0 .. n - 1 for the number n of stored addresses
C33_IndicesContiguous ==
  /\ \A a \in bitcoinAddresses, b \in bitcoinAddresses : a.index = b.index => a = b
  /\ (\A t \in Tasks : tasks[t].op = "sync" => tasks[t].pc # "fill")
       => StoredIndices = 0..(Cardinality(bitcoinAddresses) - 1)

C33_Witness ==
  /\ out.op = "getUnusedBitcoinAddress"
  /\ out.hash = LastAddress.address
  /\ Cardinality(bitcoinAddresses) > MaxStored
  /\ \E h \in hookins, a \in bitcoinAddresses :
       h.bitcoinAddress = a.address /\ a.index + 1 = LastAddress.index /\ a.index > 1

\* the bounty b is one this wallet can claim: its claimant is a stored direct address
Claimable(b) == \E a \in directAddresses : a.claimant = b.claimant

\* C31: the detached loop over the bounties of an acknowledged transfer ends
\* only when it has gone through every bounty of the transfer this wallet can
\* claim: the failure of one claim does not keep it from the claims after it
C31_SelfClaimGoesOn ==
  [][\A s \in Tasks :
       (tasks[s].op = "selfClaim" /\ tasks'[s].op # "selfClaim") =>
         \A i \in 1..Len(tasks[s].todo) : ~ Claimable(tasks[s].todo[i])]_vars

\* ------------------------------------------------ change notifications
\* the tables of the schema (lines 42-54) that hold rows; every row is keyed by
\* its hash field
StoredRows ==
  [bitcoinAddresses |-> bitcoinAddresses, directAddresses |-> directAddresses,
   bounties |-> bounties, hookins |-> hookins, hookouts |-> hookouts, claims |-> claims,
   coins |-> coins, transfers |-> transfers]

TableNames == DOMAIN StoredRows

NoRow == [hash |-> <<>>]

Keys(table) == {r.hash : r \in table}

\* the changes the store hands to the listener of line 68 for the step just
\* committed: one per row created, replaced by a different row, or deleted; a
\* step that wrote nothing, or whose transaction aborted, hands over none
Changes ==
  UNION {
    {[table |-> n, key |-> r.hash, type |-> "Create", obj |-> r, oldObj |-> NoRow] :
       r \in {x \in StoredRows'[n] : x.hash \notin Keys(StoredRows[n])}}
    \cup
    {[table |-> n, key |-> r.hash, type |-> "Update", obj |-> r,
      oldObj |-> CHOOSE o \in StoredRows[n] : o.hash = r.hash] :
       r \in {x \in StoredRows'[n] : x.hash \in Keys(StoredRows[n]) /\ x \notin StoredRows[n]}}
    \cup
    {[table |-> n, key |-> o.hash, type |-> "Delete", obj |-> NoRow, oldObj |-> o] :
       o \in {x \in StoredRows[n] : x.hash \notin Keys(StoredRows'[n])}}
    : n \in TableNames}

\* Topics with the table topic alone: the variant C34_TopicsFollowCommits has to
\* tell from Topics
TopicsTableOnly(change) == {<<"table", change.table>>}

\* lines 69-90: the topics the listener emits for one change
Topics(change) ==
  LET obj == IF change.type = "Delete" THEN change.oldObj ELSE change.obj IN
    {<<"table", change.table>>, <<"key", change.key>>}
    \cup (IF change.table = "bounties" THEN {<<"bounties.claimant", obj.claimant>>} ELSE {})
    \cup (IF change.table = "hookins"
          THEN {<<"hookins.bitcoinAddress", obj.bitcoinAddress>>} ELSE {})
    \cup (IF change.table = "transfers"
          THEN {<<"transfers.coinHashes", coinHash>> : coinHash \in obj.coinHashes}
               \cup {<<"transfers.output",
                       IF "output" \in DOMAIN obj THEN obj.output ELSE "undefined">>}
          ELSE {})

\* line 69: the listener goes through the changes of the step
Emitted == UNION {Topics(change) : change \in Changes}

\* sends, self-claims, receives and a reset: every table of the store gets rows
\* created, replaced and deleted
NextNotify ==
  \/ NewDirectAddress
  \/ \E amount \in Amounts : SendDirect(1, amount)
  \/ \E t \in Tasks : ServerSubmit(t)
  \/ \E t \in Tasks : FinalizeResume(t)
  \/ \E t \in Tasks : FinalizeAckPut(t)
  \/ \E t \in Tasks : SelfClaimNext(t)
  \/ \E t \in Tasks, a \in bitcoinAddresses, rs \in Receives : AddHookins(t, a, rs)
  \/ \E t \in Tasks : AddHookinsNext(t)
  \/ \E t \in Tasks : ClaimAnswer(t)
  \/ \E r \in pendingTx : ClaimTxRun(r)
  \/ \E t \in Tasks : Reset(t)
  \/ \E t \in Tasks : ResetNext(t)

SpecNotify == InitTransfers /\ [][NextNotify]_vars

\* the row r of table n is created, replaced or deleted by the step
RowChanged(n, r) ==
  \/ r \in StoredRows'[n] /\ r \notin StoredRows[n]
  \/ r \in StoredRows[n] /\ r.hash \notin Keys(StoredRows'[n])

====
